---- MODULE Spec2Model ----
(***************************************************************************)
(* The plan-based workflow executor (ComplexExecutor), the generic CRUD    *)
(* dispatcher it drives (DynamicCrudHandler), the users store functions    *)
(* and the complex-workflow route of SmartCoordinator.processTask.         *)
(*                                                                         *)
(* Strings are sequences of tokens.  The tokens "(", ")", " ", "-", "@"    *)
(* and "." stand for those characters; "FAIL", "OK", "WARN", "USER",       *)
(* "DEL", "NONE" and "LIST" stand for the status emoji a store response    *)
(* starts with ("FAIL" is the cross mark the dispatcher looks for), "NL"   *)
(* stands for a line break inside a value; every other token is a run of   *)
(* ordinary characters.  A text (a store response) is the sequence of the  *)
(* pieces the store joined with line breaks, a piece a sequence of tokens. *)
(***************************************************************************)
EXTENDS Integers, Sequences, FiniteSets, TLC

\* ---------------------------------------------------------------- bounds
MaxSteps == 2
MaxStore == 2
MaxRepeat == 2
MaxCount == 3

\* undefined / null / "" : every falsy value of a string-typed optional
Undef == <<>>
\* count: undefined
NoCount == 0 - 1

\* ------------------------------------------------------- string helpers
RECURSIVE FirstIndex(_, _, _)
\* smallest index >= from at which token tok occurs in s, 0 when none
FirstIndex(s, tok, from) ==
  IF from > Len(s) THEN 0
  ELSE IF s[from] = tok THEN from
  ELSE FirstIndex(s, tok, from + 1)

Includes(text, tok) ==
  \E l \in 1..Len(text) : \E i \in 1..Len(text[l]) : text[l][i] = tok

\* piece.split("\n"): the lines of one piece, cur being the line begun
RECURSIVE SplitPiece(_, _, _)
SplitPiece(piece, i, cur) ==
  IF i > Len(piece) THEN <<cur>>
  ELSE IF piece[i] = "NL" THEN <<cur>> \o SplitPiece(piece, i + 1, <<>>)
  ELSE SplitPiece(piece, i + 1, Append(cur, piece[i]))

\* text.split("\n"): the pieces were joined with line breaks
RECURSIVE SplitLines(_, _)
SplitLines(text, i) ==
  IF i > Len(text) THEN <<>>
  ELSE SplitPiece(text[i], 1, <<>>) \o SplitLines(text, i + 1)

\* line.trim().startsWith("-")
RECURSIVE TrimmedStartsWithDash(_, _)
TrimmedStartsWithDash(line, i) ==
  IF i > Len(line) THEN FALSE
  ELSE IF line[i] = " " THEN TrimmedStartsWithDash(line, i + 1)
  ELSE line[i] = "-"

\* lines.filter(line => line.trim().startsWith("-"))
RECURSIVE SelectLines(_, _)
SelectLines(lines, i) ==
  IF i > Len(lines) THEN <<>>
  ELSE (IF TrimmedStartsWithDash(lines[i], 1) THEN <<lines[i]>> ELSE <<>>)
       \o SelectLines(lines, i + 1)

\* line.match(/\(([^)]+)\)/) : group 1 of the leftmost match, Undef when none
RECURSIVE EmailMatchFrom(_, _)
EmailMatchFrom(line, i) ==
  IF i > Len(line) THEN Undef
  ELSE IF line[i] = "(" /\ FirstIndex(line, ")", i + 1) > i + 1
       THEN SubSeq(line, i + 1, FirstIndex(line, ")", i + 1) - 1)
       ELSE EmailMatchFrom(line, i + 1)

EmailMatch(line) == EmailMatchFrom(line, 1)

\* smallest k >= from with line[k] = " " and line[k+1] = "(", 0 when none
RECURSIVE SpaceParenFrom(_, _)
SpaceParenFrom(line, from) ==
  IF from + 1 > Len(line) THEN 0
  ELSE IF line[from] = " " /\ line[from + 1] = "(" THEN from
  ELSE SpaceParenFrom(line, from + 1)

\* line.match(/- (.+?) \(/) : group 1 of the leftmost match, Undef when none
RECURSIVE NameMatchFrom(_, _)
NameMatchFrom(line, i) ==
  IF i + 1 > Len(line) THEN Undef
  ELSE IF line[i] = "-" /\ line[i + 1] = " " /\ SpaceParenFrom(line, i + 3) > 0
       THEN SubSeq(line, i + 2, SpaceParenFrom(line, i + 3) - 1)
       ELSE NameMatchFrom(line, i + 1)

NameMatch(line) == NameMatchFrom(line, 1)

\* details.match(/email:\s*([^\s,]+)/) on a one-line response
RECURSIVE RunEnd(_, _)
RunEnd(line, i) ==
  IF i > Len(line) \/ line[i] \in {" ", ","} THEN i - 1 ELSE RunEnd(line, i + 1)

RECURSIVE SkipSpaces(_, _)
SkipSpaces(line, i) ==
  IF i <= Len(line) /\ line[i] = " " THEN SkipSpaces(line, i + 1) ELSE i

RECURSIVE CreatedEmailFrom(_, _)
CreatedEmailFrom(line, i) ==
  IF i > Len(line) THEN Undef
  ELSE IF line[i] = "email:" /\ RunEnd(line, SkipSpaces(line, i + 1)) >= SkipSpaces(line, i + 1)
       THEN SubSeq(line, SkipSpaces(line, i + 1), RunEnd(line, SkipSpaces(line, i + 1)))
       ELSE CreatedEmailFrom(line, i + 1)

CreatedEmailMatch(text) == IF text = <<>> THEN Undef ELSE CreatedEmailFrom(text[1], 1)

\* /^[^\s@]+@[^\s@]+\.[^\s@]+$/
validateEmail(e) ==
  /\ \A i \in 1..Len(e) : e[i] # " "
  /\ Cardinality({i \in 1..Len(e) : e[i] = "@"}) = 1
  /\ LET at == FirstIndex(e, "@", 1)
     IN  /\ at > 1
         /\ \E q \in (at + 2)..(Len(e) - 1) : e[q] = "."

\* ------------------------------------------------------------ the store
\* convex/functions/users.ts; a document is [name, email], the table is
\* kept in creation order (the patched bio, location and website of a
\* document are read by nothing and are not kept)
FindUser(st, email) ==
  IF \E i \in 1..Len(st) : st[i].email = email
  THEN CHOOSE i \in 1..Len(st) :
         st[i].email = email /\ \A j \in 1..(i - 1) : st[j].email # email
  ELSE 0

RemoveAt(s, i) == SubSeq(s, 1, i - 1) \o SubSeq(s, i + 1, Len(s))

\* the message of the error a function throws when its arguments do not
\* match its args validator
ArgumentValidationError == << <<"ArgumentValidationError">> >>

createUser(st, args) ==
  IF DOMAIN args # {"name", "email"}
  THEN [threw |-> TRUE, out |-> ArgumentValidationError, store |-> st]
  ELSE IF ~validateEmail(args["email"])
  THEN [threw |-> TRUE, out |-> << <<"FAIL", "Invalid email format:">> \o args["email"] >>, store |-> st]
  ELSE IF FindUser(st, args["email"]) # 0
  THEN [threw |-> FALSE, out |-> << <<"WARN", "User with email">> \o args["email"] \o <<"already exists">> >>,
        store |-> st]
  ELSE [threw |-> FALSE, out |-> << <<"OK", "Created user", " ">> \o args["name"] \o <<" ", "(">>
                   \o args["email"] \o <<")">> >>,
        store |-> Append(st, [name |-> args["name"], email |-> args["email"]])]

getUser(st, args) ==
  IF DOMAIN args # {"email"} THEN [threw |-> TRUE, out |-> ArgumentValidationError, store |-> st]
  ELSE IF FindUser(st, args["email"]) = 0
  THEN [threw |-> FALSE, out |-> << <<"FAIL", "No user found with email">> \o args["email"] >>, store |-> st]
  ELSE LET u == st[FindUser(st, args["email"])]
       IN [threw |-> FALSE, out |-> << <<"USER", "Found user:", " ">> \o u.name \o <<" ", "(">> \o u.email
                      \o <<")">> \o <<" - Email verified">> >>,
           store |-> st]

deleteUser(st, args) ==
  IF DOMAIN args # {"email"} THEN [threw |-> TRUE, out |-> ArgumentValidationError, store |-> st]
  ELSE IF FindUser(st, args["email"]) = 0
  THEN [threw |-> FALSE, out |-> << <<"FAIL", "No user found with email">> \o args["email"] >>, store |-> st]
  ELSE LET i == FindUser(st, args["email"])
       IN [threw |-> FALSE, out |-> << <<"DEL", "Deleted user", " ">> \o st[i].name
                      \o <<" ", "with email", " ">> \o args["email"] >>,
           store |-> RemoveAt(st, i)]

FormatLine(u) == <<"-", " ">> \o u.name \o <<" ", "(">> \o u.email \o <<")">>

\* a list that takes the first record out of the table
listUsers_Consuming(st, args) ==
  IF DOMAIN args # {} THEN [threw |-> TRUE, out |-> ArgumentValidationError, store |-> st]
  ELSE IF Len(st) = 0
  THEN [threw |-> FALSE, out |-> << <<"NONE", "No users found in the database">> >>, store |-> st]
  ELSE [threw |-> FALSE, out |-> << <<"LIST", "Found", ToString(Len(st)), "user(s):">> >>
                \o [i \in 1..Len(st) |-> FormatLine(st[i])],
        store |-> Tail(st)]

listUsers(st, args) ==
  IF DOMAIN args # {} THEN [threw |-> TRUE, out |-> ArgumentValidationError, store |-> st]
  ELSE IF Len(st) = 0
  THEN [threw |-> FALSE, out |-> << <<"NONE", "No users found in the database">> >>, store |-> st]
  ELSE [threw |-> FALSE, out |-> << <<"LIST", "Found", ToString(Len(st)), "user(s):">> >>
                \o [i \in 1..Len(st) |-> FormatLine(st[i])],
        store |-> st]

updateUser(st, args) ==
  IF ~("email" \in DOMAIN args) \/ ~(DOMAIN args \subseteq {"email", "name", "bio", "location", "website"})
  THEN [threw |-> TRUE, out |-> ArgumentValidationError, store |-> st]
  ELSE IF FindUser(st, args["email"]) = 0
  THEN [threw |-> FALSE, out |-> << <<"FAIL", "No user found with email">> \o args["email"] >>, store |-> st]
  ELSE LET i == FindUser(st, args["email"])
       IN [threw |-> FALSE, out |-> << <<"OK", "Updated user", " ">> \o st[i].name \o <<" ", "(">>
                      \o args["email"] \o <<")">> >>,
           store |-> [st EXCEPT ![i].name =
                        IF "name" \in DOMAIN args THEN args["name"] ELSE @]]

\* --------------------------------------------------- the CRUD dispatcher
\* DynamicCrudHandler.initializeEntityConfigs: only "users" is registered
entityConfigs ==
  [users |-> [table |-> "users",
              operations |-> [create |-> "functions.users.createUser",
                              read   |-> "functions.users.getUser",
                              update |-> "functions.users.updateUser",
                              delete |-> "functions.users.deleteUser",
                              list   |-> "functions.users.listUsers"],
              fields |-> <<"name", "email", "bio", "location", "website">>,
              required |-> {"name", "email"},
              validated |-> {"email"},
              identifierField |-> "email"]]

getAvailableEntityTypes == DOMAIN entityConfigs

\* the generated api object: the operation paths that resolve to a store
\* function; walking any other path meets a missing member
api ==
  {"functions.users.createUser", "functions.users.getUser", "functions.users.updateUser",
   "functions.users.deleteUser", "functions.users.listUsers"}

\* the reply of the store function, or threw and the message of the error
\* thrown while walking the path
executeOperation(operation, args, st) ==
  IF operation \notin api
  THEN [threw |-> TRUE, out |-> << <<"Operation", operation, "not found">> >>, store |-> st]
  ELSE CASE operation = "functions.users.createUser" -> createUser(st, args)
         [] operation = "functions.users.getUser"    -> getUser(st, args)
         [] operation = "functions.users.updateUser" -> updateUser(st, args)
         [] operation = "functions.users.deleteUser" -> deleteUser(st, args)
         [] operation = "functions.users.listUsers"  -> listUsers(st, args)

\* entities.find(e => e.type === identifierField)?.value
RECURSIVE FindEntity(_, _, _)
FindEntity(entities, type, i) ==
  IF i > Len(entities) THEN Undef
  ELSE IF entities[i].type = type THEN entities[i].value
  ELSE FindEntity(entities, type, i + 1)

\* the value the forEach of extractEntityData leaves in data[type]: the last one
RECURSIVE LastEntity(_, _, _)
LastEntity(entities, type, i) ==
  IF i = 0 THEN Undef
  ELSE IF entities[i].type = type THEN entities[i].value
  ELSE LastEntity(entities, type, i - 1)

SeqToSet(s) == {s[i] : i \in 1..Len(s)}

\* extracted: the object the field-extraction completion parsed to (the
\* empty function when the completion failed or found nothing)
extractEntityData(config, entities, extracted) ==
  LET known == {f \in SeqToSet(config.fields) : \E i \in 1..Len(entities) : entities[i].type = f}
  IN [f \in known \cup DOMAIN extracted |->
        IF f \in DOMAIN extracted THEN extracted[f]
        ELSE LastEntity(entities, f, Len(entities))]

\* the required fields of a create are not checked
validateEntityData_NoRequiredCheck(config, data, operation) ==
  LET invalid == {f \in DOMAIN data : f \in config.validated /\ ~validateEmail(data[f])}
  IN IF invalid # {}
     THEN <<"Invalid value for field", CHOOSE f \in invalid : TRUE>>
     ELSE Undef

\* the error line, Undef when the data is valid
validateEntityData(config, data, operation) ==
  LET missing == {i \in 1..Len(config.fields) :
                    /\ config.fields[i] \in config.required
                    /\ (config.fields[i] \notin DOMAIN data \/ data[config.fields[i]] = Undef)}
      invalid == {f \in DOMAIN data : f \in config.validated /\ ~validateEmail(data[f])}
  IN IF operation = "CREATE" /\ missing # {}
     THEN <<"Required field", config.fields[CHOOSE i \in missing : \A j \in missing : i <= j], "is missing">>
     ELSE IF invalid # {}
     THEN <<"Invalid value for field", CHOOSE f \in invalid : TRUE>>
     ELSE Undef

CrudFail(operation, table, details, error, st) ==
  [res |-> [success |-> FALSE, operation |-> operation, table |-> table,
            details |-> <<details>>, error |-> error],
   store |-> st, invoked |-> <<>>, threw |-> FALSE]

\* what handleCrudOperation's catch returns when executeOperation threw;
\* r is the reply of executeOperation, invoked the store functions called
CrudCaught(operation, entityType, handle, r) ==
  [res |-> [success |-> FALSE, operation |-> operation, table |-> entityType,
            details |-> << <<"Operation failed due to error">> >>,
            error |-> <<"Failed to execute", handle, ":">> \o r.out[1]],
   store |-> r.store, invoked |-> IF handle \in api THEN <<handle>> ELSE <<>>,
   threw |-> FALSE]

CrudDone(operation, config, handle, r, success) ==
  [res |-> [success |-> success, operation |-> operation, table |-> config.table,
            details |-> r.out, error |-> Undef],
   store |-> r.store, invoked |-> <<handle>>, threw |-> FALSE]

\* the error of executeOperation leaves handleCrudOperation
CrudInvoked_NoCatch(operation, config, entityType, handle, r, listing) ==
  IF r.threw
  THEN [CrudCaught(operation, entityType, handle, r) EXCEPT !.threw = TRUE]
  ELSE CrudDone(operation, config, handle, r, listing \/ ~Includes(r.out, "FAIL"))

\* the call of executeOperation and what the handler makes of its reply;
\* r is the reply, listing says that the handler is handleList
CrudInvoked(operation, config, entityType, handle, r, listing) ==
  IF r.threw
  THEN CrudCaught(operation, entityType, handle, r)
  ELSE CrudDone(operation, config, handle, r, listing \/ ~Includes(r.out, "FAIL"))

\* handleCreate from the validation on; validation is the error line
CreateValidated(config, entityType, data, validation, st) ==
  IF validation # Undef
  THEN CrudFail("CREATE", config.table, validation, validation, st)
  ELSE CrudInvoked("CREATE", config, entityType, config.operations.create,
                   executeOperation(config.operations.create, data, st), FALSE)

\* handleCreate from the extracted data on
CreateExtracted(config, entityType, data, st) ==
  CreateValidated(config, entityType, data, validateEntityData(config, data, "CREATE"), st)

\* !config.operations.<operation>: the handle is undefined or empty
NoHandle == ""

\* the result of a handler whose operation has no handle in the config
NotAvailable(operation, name, config, st) ==
  CrudFail(operation, config.table, <<name, "operation", "not configured">>,
           <<name, "operation", "not available">>, st)

handleCreate(config, entityType, entities, extracted, st) ==
  IF config.operations.create = NoHandle
  THEN NotAvailable("CREATE", "Create", config, st)
  ELSE CreateExtracted(config, entityType, extractEntityData(config, entities, extracted), st)

\* the store function is called whether or not there is an identifier
ByIdentifier_NoIdentifierCheck(operation, config, entityType, handle, identifier, st) ==
  CrudInvoked(operation, config, entityType, handle,
              executeOperation(handle, [f \in {config.identifierField} |-> identifier], st),
              FALSE)

\* handleRead and handleDelete from the identifier on
ByIdentifier(operation, config, entityType, handle, identifier, st) ==
  IF identifier = Undef
  THEN CrudFail(operation, config.table, <<config.identifierField, "is required">>,
                <<"Missing", config.identifierField>>, st)
  ELSE CrudInvoked(operation, config, entityType, handle,
                   executeOperation(handle, [f \in {config.identifierField} |-> identifier], st),
                   FALSE)

handleRead(config, entityType, entities, st) ==
  IF config.operations.read = NoHandle
  THEN NotAvailable("READ", "Read", config, st)
  ELSE
  ByIdentifier("READ", config, entityType, config.operations.read,
               FindEntity(entities, config.identifierField, 1), st)

\* handleUpdate from the identifier and the extracted data on: the data
\* is not validated
UpdateExtracted(config, entityType, identifier, extractedData, st) ==
  IF identifier = Undef
  THEN CrudFail("UPDATE", config.table, <<config.identifierField, "is required">>,
                <<"Missing", config.identifierField>>, st)
  ELSE CrudInvoked("UPDATE", config, entityType, config.operations.update,
                   executeOperation(config.operations.update,
                                    [f \in DOMAIN extractedData \cup {config.identifierField} |->
                                       IF f = config.identifierField THEN identifier
                                       ELSE extractedData[f]],
                                    st),
                   FALSE)

handleUpdate(config, entityType, entities, extracted, st) ==
  IF config.operations.update = NoHandle
  THEN NotAvailable("UPDATE", "Update", config, st)
  ELSE
  UpdateExtracted(config, entityType, FindEntity(entities, config.identifierField, 1),
                  extractEntityData(config, entities, extracted), st)

handleDelete(config, entityType, entities, st) ==
  IF config.operations.delete = NoHandle
  THEN NotAvailable("DELETE", "Delete", config, st)
  ELSE
  ByIdentifier("DELETE", config, entityType, config.operations.delete,
               FindEntity(entities, config.identifierField, 1), st)

handleList(config, entityType, st) ==
  IF config.operations.list = NoHandle
  THEN NotAvailable("LIST", "List", config, st)
  ELSE
  CrudInvoked("LIST", config, entityType, config.operations.list,
              executeOperation(config.operations.list, <<>>, st), TRUE)

\* an entity type without a config handled with the config of users
handleCrudOperation_DefaultsToUsers(operation, entityType, entities, extracted, st) ==
  LET config == entityConfigs["users"]
  IN CASE operation = "CREATE" -> handleCreate(config, entityType, entities, extracted, st)
       [] operation = "READ"   -> handleRead(config, entityType, entities, st)
       [] operation = "UPDATE" -> handleUpdate(config, entityType, entities, extracted, st)
       [] operation = "DELETE" -> handleDelete(config, entityType, entities, st)
       [] operation = "LIST"   -> handleList(config, entityType, st)
       [] OTHER -> CrudFail(operation, entityType, <<"Unsupported operation:", operation>>,
                            <<"Operation", operation, "not implemented">>, st)

\* handleCrudOperation of a handler whose entityConfigs map is configs
\* (the constructor's, or the constructor's with addEntityConfig applied)
Dispatch(configs, operation, entityType, entities, extracted, st) ==
  IF entityType \notin DOMAIN configs
  THEN CrudFail(operation, entityType, <<"Entity type", entityType, "not configured">>,
                <<"Unknown entity type:", entityType>>, st)
  ELSE LET config == configs[entityType]
       IN CASE operation = "CREATE" -> handleCreate(config, entityType, entities, extracted, st)
            [] operation = "READ"   -> handleRead(config, entityType, entities, st)
            [] operation = "UPDATE" -> handleUpdate(config, entityType, entities, extracted, st)
            [] operation = "DELETE" -> handleDelete(config, entityType, entities, st)
            [] operation = "LIST"   -> handleList(config, entityType, st)
            [] OTHER -> CrudFail(operation, entityType, <<"Unsupported operation:", operation>>,
                                 <<"Operation", operation, "not implemented">>, st)

\* operation is the upper-cased operation string of the step
handleCrudOperation(operation, entityType, entities, extracted, st) ==
  Dispatch(entityConfigs, operation, entityType, entities, extracted, st)

\* ---------------------------------------------------- the plan executor
\* the value of a step.operation that is not a string (it passes the
\* truthiness test of createExecutionPlan and has no toUpperCase)
NonString == "<non-string>"

NoCondition == [type |-> "none", fromStep |-> "", field |-> "", value |-> 0]
NoSort == [by |-> "", order |-> "asc"]
\* meta: undefined
NoMeta == [skipped |-> FALSE, repeated |-> 0, processedItems |-> NoCount]

toUpperCase(op) ==
  CASE op = "create" -> "CREATE"
    [] op = "read"   -> "READ"
    [] op = "update" -> "UPDATE"
    [] op = "delete" -> "DELETE"
    [] op = "list"   -> "LIST"
    [] OTHER -> op

\* resultMap is an object literal: a key it does not own resolves along the
\* prototype chain, and these keys resolve to a member of Object.prototype
ObjectPrototypeKeys ==
  {"constructor", "toString", "toLocaleString", "valueOf", "hasOwnProperty",
   "isPrototypeOf", "propertyIsEnumerable", "__proto__"}

\* priorResults[key] is not undefined
Resolves(priorResults, key) == key \in DOMAIN priorResults \/ key \in ObjectPrototypeKeys
\* priorResults[key].count, NoCount when undefined
PriorCount(priorResults, key) ==
  IF key \in DOMAIN priorResults THEN priorResults[key].count ELSE NoCount
\* priorResults[key].items, <<>> when undefined
PriorItems(priorResults, key) ==
  IF key \in DOMAIN priorResults THEN priorResults[key].items ELSE <<>>

\* count_gte compared with > and count_gt with >=
evaluateCondition_SwappedStrictness(condition, priorResults) ==
  IF ~Resolves(priorResults, condition.fromStep) THEN FALSE
  ELSE
    LET field == IF condition.field = "" THEN "count" ELSE condition.field
        actualValue ==
          IF field = "count"
          THEN (IF PriorCount(priorResults, condition.fromStep) # NoCount
                THEN PriorCount(priorResults, condition.fromStep)
                ELSE Len(PriorItems(priorResults, condition.fromStep)))
          ELSE IF field = "items.length"
          THEN Len(PriorItems(priorResults, condition.fromStep))
          ELSE 0
        targetValue == condition.value
    IN CASE condition.type = "count_gt"   -> actualValue >= targetValue
         [] condition.type = "count_gte"  -> actualValue > targetValue
         [] condition.type = "count_lt"   -> actualValue < targetValue
         [] condition.type = "count_lte"  -> actualValue <= targetValue
         [] condition.type = "count_eq"   -> actualValue = targetValue
         [] condition.type = "exists"     -> actualValue > 0
         [] condition.type = "not_exists" -> actualValue = 0
         [] OTHER -> FALSE

\* a condition on a step that failed taken as false
evaluateCondition_FailedIsFalse(condition, priorResults) ==
  IF ~Resolves(priorResults, condition.fromStep) THEN FALSE
  ELSE IF condition.fromStep \in DOMAIN priorResults
          /\ ~priorResults[condition.fromStep].success
  THEN FALSE
  ELSE
    LET field == IF condition.field = "" THEN "count" ELSE condition.field
        actualValue ==
          IF field = "count"
          THEN (IF PriorCount(priorResults, condition.fromStep) # NoCount
                THEN PriorCount(priorResults, condition.fromStep)
                ELSE Len(PriorItems(priorResults, condition.fromStep)))
          ELSE IF field = "items.length"
          THEN Len(PriorItems(priorResults, condition.fromStep))
          ELSE 0
        targetValue == condition.value
    IN CASE condition.type = "count_gt"   -> actualValue > targetValue
         [] condition.type = "count_gte"  -> actualValue >= targetValue
         [] condition.type = "count_lt"   -> actualValue < targetValue
         [] condition.type = "count_lte"  -> actualValue <= targetValue
         [] condition.type = "count_eq"   -> actualValue = targetValue
         [] condition.type = "exists"     -> actualValue > 0
         [] condition.type = "not_exists" -> actualValue = 0
         [] OTHER -> FALSE

evaluateCondition(condition, priorResults) ==
  IF ~Resolves(priorResults, condition.fromStep) THEN FALSE
  ELSE
    LET field == IF condition.field = "" THEN "count" ELSE condition.field
        actualValue ==
          IF field = "count"
          THEN (IF PriorCount(priorResults, condition.fromStep) # NoCount
                THEN PriorCount(priorResults, condition.fromStep)
                ELSE Len(PriorItems(priorResults, condition.fromStep)))
          ELSE IF field = "items.length"
          THEN Len(PriorItems(priorResults, condition.fromStep))
          ELSE 0
        targetValue == condition.value
    IN CASE condition.type = "count_gt"   -> actualValue > targetValue
         [] condition.type = "count_gte"  -> actualValue >= targetValue
         [] condition.type = "count_lt"   -> actualValue < targetValue
         [] condition.type = "count_lte"  -> actualValue <= targetValue
         [] condition.type = "count_eq"   -> actualValue = targetValue
         [] condition.type = "exists"     -> actualValue > 0
         [] condition.type = "not_exists" -> actualValue = 0
         [] OTHER -> FALSE

\* the order of < on strings: tokens by their place in Alphabet, then
\* lexicographic
Alphabet ==
  <<"NL", " ", "(", ")", "-", ".", "@", "Al", "B", "Bo", "C", "Cy", "Di", "Ed", "Fay", "Zed",
    "a", "b", "c", "d", "e", "f", "io", "jr", "x">>

Rank(tok) ==
  IF \E i \in 1..Len(Alphabet) : Alphabet[i] = tok
  THEN CHOOSE i \in 1..Len(Alphabet) : Alphabet[i] = tok
  ELSE Len(Alphabet) + 1

RECURSIVE StrLess(_, _)
StrLess(a, b) ==
  IF b = <<>> THEN FALSE
  ELSE IF a = <<>> THEN TRUE
  ELSE IF Rank(a[1]) # Rank(b[1]) THEN Rank(a[1]) < Rank(b[1])
  ELSE StrLess(Tail(a), Tail(b))

ItemField(item, by) == IF by \in DOMAIN item THEN item[by] ELSE Undef

\* the comparator with the order applied to the null cases as well
Compare_NullsByOrder(a, b, sort) ==
  LET aVal == ItemField(a, sort.by)
      bVal == ItemField(b, sort.by)
      comparison == IF aVal = Undef THEN 1
                    ELSE IF bVal = Undef THEN 0 - 1
                    ELSE IF StrLess(aVal, bVal) THEN 0 - 1 ELSE 1
  IN IF aVal = bVal THEN 0
     ELSE IF sort.order = "asc" THEN comparison ELSE 0 - comparison

\* the comparator of sortItems
Compare(a, b, sort) ==
  LET aVal == ItemField(a, sort.by)
      bVal == ItemField(b, sort.by)
      comparison == IF StrLess(aVal, bVal) THEN 0 - 1 ELSE 1
  IN IF aVal = bVal THEN 0
     ELSE IF aVal = Undef THEN 1
     ELSE IF bVal = Undef THEN 0 - 1
     ELSE IF sort.order = "asc" THEN comparison ELSE 0 - comparison

\* x placed after every element that does not compare greater (stable)
RECURSIVE InsertSorted(_, _, _)
InsertSorted(sorted, x, sort) ==
  IF sorted = <<>> THEN <<x>>
  ELSE IF Compare(sorted[Len(sorted)], x, sort) <= 0 THEN Append(sorted, x)
  ELSE Append(InsertSorted(SubSeq(sorted, 1, Len(sorted) - 1), x, sort), sorted[Len(sorted)])

RECURSIVE SortFrom(_, _, _, _)
SortFrom(items, i, acc, sort) ==
  IF i > Len(items) THEN acc
  ELSE SortFrom(items, i + 1, InsertSorted(acc, items[i], sort), sort)

sortItems(items, sort) == SortFrom(items, 1, <<>>, sort)

ParseItem(line) == [email |-> EmailMatch(line), name |-> NameMatch(line), _raw |-> line]

RECURSIVE TruthyEmails(_, _)
TruthyEmails(items, i) ==
  IF i > Len(items) THEN <<>>
  ELSE (IF items[i].email # Undef THEN <<items[i].email>> ELSE <<>>) \o TruthyEmails(items, i + 1)

\* the entities array executeSingleOperation hands to the dispatcher
StepEntities(step) ==
  [i \in 1..Len(step.data) |-> [type |-> step.data[i].key, value |-> step.data[i].value]]
  \o (IF step.identifier # Undef
      THEN <<[type |-> IF step.entityType \in DOMAIN entityConfigs
                       THEN entityConfigs[step.entityType].identifierField
                       ELSE "email",
              value |-> step.identifier]>>
      ELSE <<>>)

\* the list cut to limit before it is sorted
ListItems_LimitFirst(step, details) ==
  LET itemLines == SelectLines(SplitLines(details, 1), 1)
      parsed == [i \in 1..Len(itemLines) |-> ParseItem(itemLines[i])]
      cut == IF step.limit # 0 /\ Len(parsed) > step.limit THEN SubSeq(parsed, 1, step.limit)
             ELSE parsed
  IN IF step.sort.by # "" /\ Len(cut) > 0 THEN sortItems(cut, step.sort) ELSE cut

\* the items, count and ids executeSingleOperation scrapes from a list response
ListItems(step, details) ==
  LET itemLines == SelectLines(SplitLines(details, 1), 1)
      parsed == [i \in 1..Len(itemLines) |-> ParseItem(itemLines[i])]
      sorted == IF step.sort.by # "" /\ Len(parsed) > 0 THEN sortItems(parsed, step.sort) ELSE parsed
  IN IF step.limit # 0 /\ Len(sorted) > step.limit THEN SubSeq(sorted, 1, step.limit) ELSE sorted

\* items, count and ids of the StepResult, as executeSingleOperation
\* scrapes them from the CrudResult
ScrapedItems(step, operation, crudResult) ==
  IF operation = "LIST" /\ crudResult.success THEN ListItems(step, crudResult.details) ELSE <<>>

ScrapedCount(operation, crudResult, items) ==
  IF operation = "LIST" /\ crudResult.success THEN Len(items)
  ELSE IF operation \in {"CREATE", "DELETE"} /\ crudResult.success THEN 1
  ELSE 0

ScrapedIds(operation, crudResult, items) ==
  IF operation = "LIST" /\ crudResult.success THEN TruthyEmails(items, 1)
  ELSE IF operation = "CREATE" /\ crudResult.success
          /\ CreatedEmailMatch(crudResult.details) # Undef
  THEN <<CreatedEmailMatch(crudResult.details)>>
  ELSE <<>>

\* executeSingleOperation from the scraped items on
SingleScraped(step, operation, entities, crud, items) ==
  [threw |-> FALSE, store |-> crud.store,
   result |-> [stepId |-> step.id, success |-> crud.res.success,
               operation |-> step.operation, entityType |-> step.entityType,
               items |-> items, count |-> ScrapedCount(operation, crud.res, items),
               ids |-> ScrapedIds(operation, crud.res, items),
               details |-> crud.res.details, error |-> crud.res.error,
               meta |-> NoMeta],
   calls |-> <<[operation |-> operation, entityType |-> step.entityType,
                entities |-> entities, identifier |-> step.identifier,
                invoked |-> crud.invoked, success |-> crud.res.success,
                count |-> ScrapedCount(operation, crud.res, items),
                ids |-> ScrapedIds(operation, crud.res, items)]>>]

\* executeSingleOperation from the return of handleCrudOperation on
SingleDispatched(step, operation, entities, crud) ==
  SingleScraped(step, operation, entities, crud, ScrapedItems(step, operation, crud.res))

\* [threw, result, store, calls]: calls holds the dispatcher call made, with
\* the outcome scraped from it
executeSingleOperation(step, extracted, st) ==
  IF step.operation = NonString
  THEN [threw |-> TRUE, store |-> st, calls |-> <<>>,
        result |-> [stepId |-> step.id, success |-> FALSE, operation |-> step.operation,
                    entityType |-> step.entityType, items |-> <<>>, count |-> NoCount,
                    ids |-> <<>>, details |-> <<>>, error |-> <<"TypeError">>,
                    meta |-> NoMeta]]
  ELSE SingleDispatched(step, toUpperCase(step.operation), StepEntities(step),
                        handleCrudOperation(toUpperCase(step.operation), step.entityType,
                                            StepEntities(step), extracted, st))

ExtractedAt(extr, i) == IF i \in DOMAIN extr THEN extr[i] ELSE <<>>

RECURSIVE ExecuteAll(_, _, _, _, _)

\* the loop after round i, whose executeSingleOperation returned r
ExecuteRest(itemSteps, i, extr, calls, r) ==
  IF r.threw THEN [threw |-> TRUE, store |-> r.store, calls |-> calls]
  ELSE ExecuteAll(itemSteps, i + 1, extr, r.store, calls \o r.calls)

\* the loop without its last round
ExecuteAll_DropLast(itemSteps, i, extr, st, calls) ==
  IF i >= Len(itemSteps) THEN [threw |-> FALSE, store |-> st, calls |-> calls]
  ELSE ExecuteRest(itemSteps, i, extr, calls,
                   executeSingleOperation(itemSteps[i], ExtractedAt(extr, i), st))

\* the loop of executeRepeated / executeOnPriorStepItems: one
\* executeSingleOperation per element of itemSteps, stopped by a throw
ExecuteAll(itemSteps, i, extr, st, calls) ==
  IF i > Len(itemSteps) THEN [threw |-> FALSE, store |-> st, calls |-> calls]
  ELSE ExecuteRest(itemSteps, i, extr, calls,
                   executeSingleOperation(itemSteps[i], ExtractedAt(extr, i), st))

RECURSIVE SumCounts(_, _)
SumCounts(calls, i) ==
  IF i > Len(calls) THEN 0 ELSE calls[i].count + SumCounts(calls, i + 1)

RECURSIVE FlatIds(_, _)
FlatIds(calls, i) ==
  IF i > Len(calls) THEN <<>> ELSE calls[i].ids \o FlatIds(calls, i + 1)

Aggregate(step, run, meta, details) ==
  [threw |-> run.threw, store |-> run.store, calls |-> run.calls,
   result |-> [stepId |-> step.id,
               success |-> \A i \in 1..Len(run.calls) : run.calls[i].success,
               operation |-> step.operation, entityType |-> step.entityType,
               items |-> <<>>, count |-> SumCounts(run.calls, 1),
               ids |-> FlatIds(run.calls, 1), details |-> <<details>>,
               error |-> Undef, meta |-> meta]]

\* a loop bound of times - 1
executeRepeated_OffByOne(step, times, extr, st) ==
  Aggregate(step, ExecuteAll([i \in 1..(times - 1) |-> step], 1, extr, st, <<>>),
            [NoMeta EXCEPT !.repeated = times], <<"Repeated", ToString(times), "times">>)

executeRepeated(step, times, extr, st) ==
  Aggregate(step, ExecuteAll([i \in 1..times |-> step], 1, extr, st, <<>>),
            [NoMeta EXCEPT !.repeated = times], <<"Repeated", ToString(times), "times">>)

\* the explicit identifier of the step taking precedence over the item's
ItemIdentifier_ExplicitFirst(step, item) ==
  IF step.identifier # Undef THEN step.identifier ELSE item.email

\* the identifier of the per-item step
ItemIdentifier(step, item) == IF item.email # Undef THEN item.email ELSE step.identifier

\* the items of the prior step visited from the last to the first
executeOnPriorStepItems_LastFirst(step, priorResults, extr, st) ==
  LET items == PriorItems(priorResults, step.fromStep)
  IN IF ~Resolves(priorResults, step.fromStep) \/ Len(items) = 0
     THEN [threw |-> FALSE, store |-> st, calls |-> <<>>,
           result |-> [stepId |-> step.id, success |-> TRUE, operation |-> step.operation,
                       entityType |-> step.entityType, items |-> <<>>, count |-> 0,
                       ids |-> <<>>, details |-> << <<"No items from prior step to process">> >>,
                       error |-> Undef, meta |-> NoMeta]]
     ELSE Aggregate(step,
                    ExecuteAll([i \in 1..Len(items) |->
                                  [step EXCEPT !.identifier = ItemIdentifier(step, items[Len(items) + 1 - i])]],
                               1, extr, st, <<>>),
                    [NoMeta EXCEPT !.processedItems = Len(items)],
                    <<"Processed", ToString(Len(items)), "items from", step.fromStep>>)

executeOnPriorStepItems(step, priorResults, extr, st) ==
  LET items == PriorItems(priorResults, step.fromStep)
  IN IF ~Resolves(priorResults, step.fromStep) \/ Len(items) = 0
     THEN [threw |-> FALSE, store |-> st, calls |-> <<>>,
           result |-> [stepId |-> step.id, success |-> TRUE, operation |-> step.operation,
                       entityType |-> step.entityType, items |-> <<>>, count |-> 0,
                       ids |-> <<>>, details |-> << <<"No items from prior step to process">> >>,
                       error |-> Undef, meta |-> NoMeta]]
     ELSE Aggregate(step,
                    ExecuteAll([i \in 1..Len(items) |->
                                  [step EXCEPT !.identifier = ItemIdentifier(step, items[i])]],
                               1, extr, st, <<>>),
                    [NoMeta EXCEPT !.processedItems = Len(items)],
                    <<"Processed", ToString(Len(items)), "items from", step.fromStep>>)

SkippedResult(step) ==
  [stepId |-> step.id, success |-> TRUE, operation |-> step.operation,
   entityType |-> step.entityType, items |-> <<>>, count |-> 0, ids |-> <<>>,
   details |-> << <<"Skipped due to condition">> >>, error |-> Undef,
   meta |-> [NoMeta EXCEPT !.skipped = TRUE]]

\* the fan-out branch tested before the condition
executeDynamicOperation_FanOutFirst(step, priorResults, extr, st) ==
  IF step.fromStep # ""
  THEN executeOnPriorStepItems(step, priorResults, extr, st)
  ELSE IF step.condition.type # "none" /\ ~evaluateCondition(step.condition, priorResults)
  THEN [threw |-> FALSE, store |-> st, calls |-> <<>>, result |-> SkippedResult(step)]
  ELSE IF step.repeat > 1
  THEN executeRepeated(step, step.repeat, extr, st)
  ELSE executeSingleOperation(step, ExtractedAt(extr, 1), st)

\* the condition decided from the table as it is when the step is reached
executeDynamicOperation_Relist(step, priorResults, extr, st) ==
  IF step.condition.type # "none"
     /\ ~evaluateCondition(step.condition,
                           [k \in DOMAIN priorResults |->
                              [priorResults[k] EXCEPT !.count = Len(st)]])
  THEN [threw |-> FALSE, store |-> st, calls |-> <<>>, result |-> SkippedResult(step)]
  ELSE IF step.fromStep # ""
  THEN executeOnPriorStepItems(step, priorResults, extr, st)
  ELSE IF step.repeat > 1
  THEN executeRepeated(step, step.repeat, extr, st)
  ELSE executeSingleOperation(step, ExtractedAt(extr, 1), st)

\* the repeat branch tested before the fan-out branch
executeDynamicOperation_RepeatFirst(step, priorResults, extr, st) ==
  IF step.condition.type # "none" /\ ~evaluateCondition(step.condition, priorResults)
  THEN [threw |-> FALSE, store |-> st, calls |-> <<>>, result |-> SkippedResult(step)]
  ELSE IF step.repeat > 1
  THEN executeRepeated(step, step.repeat, extr, st)
  ELSE IF step.fromStep # ""
  THEN executeOnPriorStepItems(step, priorResults, extr, st)
  ELSE executeSingleOperation(step, ExtractedAt(extr, 1), st)

executeDynamicOperation(step, priorResults, extr, st) ==
  IF step.condition.type # "none" /\ ~evaluateCondition(step.condition, priorResults)
  THEN [threw |-> FALSE, store |-> st, calls |-> <<>>, result |-> SkippedResult(step)]
  ELSE IF step.fromStep # ""
  THEN executeOnPriorStepItems(step, priorResults, extr, st)
  ELSE IF step.repeat > 1
  THEN executeRepeated(step, step.repeat, extr, st)
  ELSE executeSingleOperation(step, ExtractedAt(extr, 1), st)

\* the StepResult the catch of executePlan records
CaughtResult(step) ==
  [stepId |-> step.id, success |-> FALSE, operation |-> step.operation,
   entityType |-> step.entityType, items |-> <<>>, count |-> NoCount, ids |-> <<>>,
   details |-> <<>>, error |-> <<"TypeError">>, meta |-> NoMeta]

\* the catch of executePlan: a step that threw is recorded as failed
CatchStep(step, r) ==
  IF r.threw
  THEN [threw |-> FALSE, store |-> r.store, calls |-> r.calls, result |-> CaughtResult(step)]
  ELSE r

\* the loop body without its try/catch
executePlanStep_NoCatch(step, priorResults, extr, st) ==
  executeDynamicOperation(step, priorResults, extr, st)

\* one iteration of the loop of executePlan: [threw, result, store, calls];
\* threw says that the exception of the step leaves executePlan
executePlanStep(step, priorResults, extr, st) ==
  CatchStep(step, executeDynamicOperation(step, priorResults, extr, st))

\* ------------------------------------------------- inputs of the model
Roster ==
  <<[name |-> <<"Al">>, email |-> <<"a", "@", "x", ".", "io">>],
    [name |-> <<"Cy", " ", "(", "jr", ")">>, email |-> <<"c", "@", "x", ".", "io">>],
    [name |-> <<"Bo">>, email |-> <<"b", "@", "x", ".", "io">>],
    [name |-> <<"Ed">>, email |-> <<"e", "@", "x", ".", "io">>],
    [name |-> <<"Fay">>, email |-> <<"f", "@", "x", ".", "io">>]>>

\* two users, one of them with a name of three lines
MultilineStore ==
  <<[name |-> <<"Al", "NL", "-", " ", "B", "NL", "-", " ", "C">>,
     email |-> <<"a", "@", "x", ".", "io">>],
    Roster[3]>>

\* the users table when the request arrives
InitialStores ==
  ({SubSeq(Roster, 1, n) : n \in 0..MaxStore} \cap {SubSeq(Roster, 1, n) : n \in 0..Len(Roster)})
  \cup {Roster, MultilineStore}

NewUser == <<[key |-> "name", value |-> <<"Di">>],
             [key |-> "email", value |-> <<"d", "@", "x", ".", "io">>]>>
NewName == <<[key |-> "name", value |-> <<"Zed">>]>>

\* what the field-extraction completion of the dispatcher may parse to
LlmExtractions == {<<>>, [f \in {"email"} |-> <<"b", "@", "x", ".", "io">>]}

StepOf(operation, entityType, data, identifier) ==
  [id |-> "", operation |-> operation, entityType |-> entityType, data |-> data,
   identifier |-> identifier, sort |-> NoSort, limit |-> 0, condition |-> NoCondition,
   repeat |-> 0, fromStep |-> ""]

ConditionOf(type, fromStep, value) ==
  [type |-> type, fromStep |-> fromStep, field |-> "", value |-> value]

OldestFirst == [by |-> "_creationTime", order |-> "asc"]

PlainSteps ==
  { StepOf("list", "users", <<>>, Undef),
    [StepOf("list", "users", <<>>, Undef) EXCEPT !.limit = 1, !.sort = OldestFirst],
    StepOf("list", "products", <<>>, Undef),
    StepOf("create", "users", NewUser, Undef),
    StepOf("delete", "users", <<>>, Roster[1].email),
    StepOf("delete", "users", <<>>, Undef),
    StepOf("read", "users", <<>>, Roster[1].email),
    StepOf("update", "users", NewName, Roster[1].email),
    StepOf(NonString, "users", <<>>, Undef) }

ConditionalSteps ==
  { [StepOf("create", "users", NewUser, Undef) EXCEPT !.condition = ConditionOf(t, "s1", 1)] :
      t \in {"count_gt", "count_lte", "exists", "not_exists"} }
  \cup
  { [StepOf("create", "users", NewUser, Undef) EXCEPT !.condition = ConditionOf("count_lte", "s1", 3)] }
  \cup
  { [StepOf("create", "users", NewUser, Undef) EXCEPT !.condition = ConditionOf(t, ref, 1)] :
      t \in {"exists", "not_exists"}, ref \in {"s2", "ghost", "constructor"} }
  \cup
  { [StepOf("create", "users", NewUser, Undef) EXCEPT
       !.condition = [ConditionOf("count_gte", "s1", 2) EXCEPT !.field = "items.length"]],
    \* the documented step: delete the oldest when there are more than value
    [StepOf("delete", "users", <<>>, Undef) EXCEPT
       !.condition = ConditionOf("count_gt", "s1", 1), !.fromStep = "s1",
       !.limit = 1, !.sort = OldestFirst] }

FanOutSteps ==
  { [StepOf(op, "users", IF op = "create" THEN NewUser ELSE IF op = "update" THEN NewName ELSE <<>>,
            Undef) EXCEPT !.fromStep = "s1"] :
      op \in {"delete", "create", "update", "list", NonString} }
  \cup
  { [StepOf(op, "users", IF op = "update" THEN NewName ELSE <<>>, Roster[2].email)
       EXCEPT !.fromStep = "s1"] :
      op \in {"delete", "update"} }
  \cup
  { [StepOf(op, "users", <<>>, Undef) EXCEPT !.fromStep = "s1", !.limit = 1] :
      op \in {"delete", "list"} }
  \cup
  { [StepOf("delete", "users", <<>>, Undef) EXCEPT !.fromStep = ref] :
      ref \in {"ghost", "constructor"} }

RepeatSteps ==
  { [StepOf(op, "users", IF op = "create" THEN NewUser ELSE <<>>,
            IF op = "delete" THEN Roster[1].email ELSE Undef) EXCEPT !.repeat = n] :
      op \in {"create", "delete", NonString}, n \in 2..MaxRepeat }

StepChoices == PlainSteps \cup ConditionalSteps \cup FanOutSteps \cup RepeatSteps

StepIds == [i \in 1..(MaxSteps + 1) |-> "s" \o ToString(i)]

\* the first step of a plan: a step that refers to no step, or to a step
\* that is not before it
FirstSteps ==
  PlainSteps
  \cup {s \in ConditionalSteps : s.condition.fromStep = "s2"}
  \cup {s \in FanOutSteps : s.fromStep = "ghost"}

\* the well-formed plans: step i has the id s<i>
Plans ==
  UNION { { [i \in 1..n |-> [p[i] EXCEPT !.id = StepIds[i]]] :
              p \in {q \in [1..n -> StepChoices] : n > 0 => q[1] \in FirstSteps} } :
          n \in 0..MaxSteps }

\* plans with a store change between a step and the condition that reads
\* its result
InterleavedPlans ==
  { [i \in 1..3 |-> [(<<StepOf("list", "users", <<>>, Undef), m,
                        [StepOf("list", "users", <<>>, Undef) EXCEPT
                           !.condition = ConditionOf(t, "s1", 1)]>>)[i]
                      EXCEPT !.id = StepIds[i]]] :
      m \in {StepOf("create", "users", NewUser, Undef),
             StepOf("delete", "users", <<>>, Roster[1].email)},
      t \in {"count_gt", "count_lte"} }

\* the conditions that hold of a count of 0, and exists
ZeroConditions ==
  {ConditionOf("exists", "", 0), ConditionOf("not_exists", "", 0),
   ConditionOf("count_eq", "", 0), ConditionOf("count_lt", "", 1),
   ConditionOf("count_lte", "", 1)}

\* plans whose last step is conditioned on a step that fails (as a
\* whole, or in one of its repetitions) or is skipped
FailedReferencePlans ==
  { <<[first EXCEPT !.id = "s1"],
      [StepOf("create", "users", NewUser, Undef) EXCEPT
         !.id = "s2", !.condition = [c EXCEPT !.fromStep = "s1"]]>> :
      first \in {StepOf("list", "products", <<>>, Undef),
                 StepOf(NonString, "users", <<>>, Undef),
                 StepOf("read", "users", <<>>, Roster[4].email),
                 [StepOf("delete", "users", <<>>, Roster[1].email) EXCEPT !.repeat = 2]},
      c \in ZeroConditions }
  \cup
  { <<[StepOf("list", "users", <<>>, Undef) EXCEPT !.id = "s1"],
      [StepOf("create", "users", NewUser, Undef) EXCEPT
         !.id = "s2", !.condition = ConditionOf("exists", "ghost", 0)],
      [StepOf("create", "users", NewUser, Undef) EXCEPT
         !.id = "s3", !.condition = [c EXCEPT !.fromStep = "s2"]]>> :
      c \in ZeroConditions }

\* plans whose second step names more than one execution mode, or a
\* repeat of 1
MixedModePlans ==
  { <<[StepOf("list", "users", <<>>, Undef) EXCEPT !.id = "s1"], [second EXCEPT !.id = "s2"]>> :
      second \in
        {[StepOf("delete", "users", <<>>, Undef) EXCEPT !.fromStep = "s1", !.repeat = 2],
         [StepOf("delete", "users", <<>>, Undef) EXCEPT
            !.fromStep = "s1", !.repeat = 2, !.condition = ConditionOf("count_gt", "s1", 1)],
         [StepOf("delete", "users", <<>>, Roster[1].email) EXCEPT
            !.repeat = 2, !.condition = ConditionOf("exists", "s1", 0)],
         [StepOf("delete", "users", <<>>, Roster[1].email) EXCEPT !.repeat = 1]} }

\* plans createExecutionPlan rejects: a step without id, operation or entityType
InvalidPlans ==
  { <<[StepOf("list", "users", <<>>, Undef) EXCEPT !.id = "s1"],
      [StepOf("create", "users", NewUser, Undef) EXCEPT !.id = ""]>>,
    <<[StepOf("", "users", NewUser, Undef) EXCEPT !.id = "s1"]>>,
    <<[StepOf("create", "", NewUser, Undef) EXCEPT !.id = "s1"]>> }

\* what the planning completion may return
LlmPlanOutputs ==
  { [kind |-> k, steps |-> <<>>] : k \in {"throws", "unparseable", "nosteps"} }
  \cup { [kind |-> "plan", steps |-> p] : p \in Plans \cup InterleavedPlans \cup InvalidPlans
                                                \cup FailedReferencePlans \cup MixedModePlans }

\* ------------------------------------------------------------- process
\* a completion is a sequence of pieces: "FENCE_JSON" and "FENCE" are the
\* code-fence markers, "PROSE" is text without braces, "{" and "}" are
\* braces, "STEPS" is a steps member holding an array, "STEPS_OBJ" a steps
\* member holding an object, "null" the JSON null
NotFence(piece) == piece \notin {"FENCE_JSON", "FENCE"}

RECURSIVE LastIndex(_, _, _)
\* greatest index <= from at which tok occurs in s, 0 when none
LastIndex(s, tok, from) ==
  IF from < 1 THEN 0
  ELSE IF s[from] = tok THEN from
  ELSE LastIndex(s, tok, from - 1)

\* cleaned.match(/\{[\s\S]*\}/): from the first "{" to the last "}"
\* after it; cleaned itself when there is no match
JsonMatch(cleaned) ==
  IF FirstIndex(cleaned, "{", 1) > 0
     /\ LastIndex(cleaned, "}", Len(cleaned)) > FirstIndex(cleaned, "{", 1)
  THEN SubSeq(cleaned, FirstIndex(cleaned, "{", 1), LastIndex(cleaned, "}", Len(cleaned)))
  ELSE cleaned

\* JSON.parse of the text left: the kind of value it yields
JsonParse(cleaned) ==
  IF cleaned = <<"{", "STEPS", "}">> THEN "plan"
  ELSE IF cleaned \in {<<"{", "STEPS_OBJ", "}">>, <<"{", "}">>} THEN "nosteps"
  ELSE IF cleaned = <<"null">> THEN "null"
  ELSE "unparseable"

\* parseJSON of a completion whose steps member, when it has one that is
\* an array, holds steps: [kind, steps] as createExecutionPlan reads it
parseJSON(text, steps) ==
  [kind |-> JsonParse(JsonMatch(SelectSeq(text, NotFence))),
   steps |-> IF JsonParse(JsonMatch(SelectSeq(text, NotFence))) = "plan" THEN steps ELSE <<>>]

\* the validation loop over the steps left out
createExecutionPlan_NoStepCheck(response) ==
  IF response.kind # "plan"
  THEN [ok |-> FALSE, plan |-> <<>>]
  ELSE [ok |-> TRUE, plan |-> response.steps]

\* a step of an entity type that is not configured rejected as well
createExecutionPlan_KnownTypesOnly(response) ==
  IF response.kind # "plan"
  THEN [ok |-> FALSE, plan |-> <<>>]
  ELSE IF \E i \in 1..Len(response.steps) :
            \/ response.steps[i].id = ""
            \/ response.steps[i].operation = ""
            \/ response.steps[i].entityType = ""
            \/ response.steps[i].entityType \notin getAvailableEntityTypes
  THEN [ok |-> FALSE, plan |-> <<>>]
  ELSE [ok |-> TRUE, plan |-> response.steps]

\* [ok, plan]: ok = FALSE when createExecutionPlan throws
createExecutionPlan(response) ==
  IF response.kind # "plan"
  THEN [ok |-> FALSE, plan |-> <<>>]
  ELSE IF \E i \in 1..Len(response.steps) :
            \/ response.steps[i].id = ""
            \/ response.steps[i].operation = ""
            \/ response.steps[i].entityType = ""
  THEN [ok |-> FALSE, plan |-> <<>>]
  ELSE [ok |-> TRUE, plan |-> response.steps]

\* the number of field-extraction completions the step will request
ExtractionSlots(step, priorResults) ==
  IF step.operation \notin {"create", "update"} \/ step.entityType \notin DOMAIN entityConfigs
  THEN 0
  ELSE IF step.condition.type # "none" /\ ~evaluateCondition(step.condition, priorResults)
  THEN 0
  ELSE IF step.fromStep # "" THEN Len(PriorItems(priorResults, step.fromStep))
  ELSE IF step.repeat > 1 THEN step.repeat
  ELSE 1

\* what handleComplexWorkflow returns for the result of process (process
\* catches every exception and logAction swallows its own)
handleComplexWorkflow(result) ==
  IF result = ""
  THEN [success |-> FALSE, result |-> "Failed to execute complex workflow",
        strategy |-> "MULTI_AGENT", error |-> "Execution failed"]
  ELSE [success |-> TRUE, result |-> result, strategy |-> "MULTI_AGENT", error |-> ""]

NoProcessResult == [success |-> FALSE, result |-> "", strategy |-> "", error |-> ""]

\* ----------------------------------------------------- the coordinator
\* PromptClassifier.classify, catch branch: the fallback classification
FallbackClassification ==
  [intent |-> "UNKNOWN", operation |-> "", table |-> "", entities |-> <<>>]

\* completion: the classification completion, ok when it came back, parsed
\* and passed the schema
classify(completion) ==
  IF completion.ok THEN completion.classification ELSE FallbackClassification

Intents ==
  {"GREETING", "SIMPLE_QUESTION", "CRUD_OPERATION", "COMPLEX_WORKFLOW", "SAFETY_VIOLATION",
   "UNKNOWN"}

\* every intent fetches the database context
INTENT_CONFIG_AlwaysContext(intent) == [needsDbContext |-> TRUE, requiresExecution |-> FALSE]

INTENT_CONFIG(intent) ==
  IF intent \in {"CRUD_OPERATION", "COMPLEX_WORKFLOW"}
  THEN [needsDbContext |-> TRUE, requiresExecution |-> TRUE]
  ELSE [needsDbContext |-> FALSE, requiresExecution |-> FALSE]

\* an unknown intent is handed to the dispatcher
Route_UnknownDispatched(intent) ==
  CASE intent = "CRUD_OPERATION"   -> "handleCrudOperation"
    [] intent = "UNKNOWN"          -> "handleCrudOperation"
    [] intent = "COMPLEX_WORKFLOW" -> "handleComplexWorkflow"
    [] OTHER -> "handleWithIntelligence"

\* the switch of processTask: the handler of the intent
Route(intent) ==
  CASE intent = "CRUD_OPERATION"   -> "handleCrudOperation"
    [] intent = "COMPLEX_WORKFLOW" -> "handleComplexWorkflow"
    [] OTHER -> "handleWithIntelligence"

\* the count getDbContext reads from the reply of a list query: the first
\* number in it, 0 when there is none
CountMatch(reply) ==
  IF reply[1][1] = "LIST" THEN Len(reply) - 1 ELSE 0

\* getDbContext; failed: the list query threw
getDbContext(st, failed) ==
  [entityCounts |-> [t \in getAvailableEntityTypes |->
                       IF failed THEN 0 ELSE CountMatch(listUsers(st, <<>>).out)],
   queries |-> Cardinality(getAvailableEntityTypes)]

\* the context of an intent that needs none
MinimalContext == [entityCounts |-> <<>>, queries |-> 0]

\* inferEntityType: the type the first known entity maps to, "" for null
RECURSIVE inferEntityType(_, _)
inferEntityType(entities, i) ==
  IF i > Len(entities) THEN ""
  ELSE IF entities[i].type \in {"email", "name", "user"} THEN "users"
  ELSE IF entities[i].type \in {"product", "price"} THEN "products"
  ELSE inferEntityType(entities, i + 1)

\* table || inferEntityType(entities) || "users"
EntityTypeOf(classification) ==
  IF classification.table # "" THEN classification.table
  ELSE IF inferEntityType(classification.entities, 1) # ""
  THEN inferEntityType(classification.entities, 1)
  ELSE "users"

\* an operation that is not one of the five taken as DELETE
ValidOperation_DefaultDelete(classification) ==
  IF toUpperCase(classification.operation) \in {"CREATE", "READ", "UPDATE", "DELETE", "LIST"}
  THEN toUpperCase(classification.operation)
  ELSE "DELETE"

\* classification.operation || "LIST", upper-cased, "LIST" when it is not
\* one of the five
ValidOperation(classification) ==
  IF toUpperCase(classification.operation) \in {"CREATE", "READ", "UPDATE", "DELETE", "LIST"}
  THEN toUpperCase(classification.operation)
  ELSE "LIST"

\* the ProcessResult of the coordinator's handleCrudOperation for the
\* result r of the dispatcher
CrudProcessResult(r) ==
  [success |-> r.res.success,
   result |-> IF r.res.success THEN <<"OK", r.res.operation>> \o r.res.details[1]
              ELSE <<"FAIL", "Operation Failed">>,
   strategy |-> "SIMPLE_CRUD",
   reasoning |-> <<"Classified as operation", "Used dynamic CRUD handler",
                   IF r.res.success THEN "Operation completed successfully"
                   ELSE "Operation failed">>]

\* the ProcessResult for an entity type the dispatcher has no config of
UnsupportedEntityType ==
  [success |-> FALSE, result |-> <<"Entity type is not currently supported">>,
   strategy |-> "REJECTED", reasoning |-> <<"Unsupported entity type">>]

\* the ProcessResult of handleWithIntelligence for the message of
\* generateResponse
DirectResult(message, reasoning) ==
  [success |-> TRUE, result |-> message, strategy |-> "DIRECT",
   reasoning |-> <<"Classified", "Generated intelligent response using AI reasoning">>
                 \o reasoning]

\* the last resort of generateAdaptiveResponse
Template == <<"I understand you said", "input", "What would you like to do?">>

\* processTask has not returned
NoResult == [success |-> FALSE, result |-> Undef, strategy |-> "", reasoning |-> <<>>]

\* the requests the service is processing at the same time
Requests == 1..2

\* the ComplexExecutor of the module-level coordinator before any call of
\* process: the array this.reasoning points to, and no call running
NoService ==
  [reasoning |-> <<>>,
   running |-> [r \in Requests |->
                  [pc |-> "none", plan |-> <<>>, results |-> <<>>, resultMap |-> <<>>,
                   returned |-> <<>>]]]

\* no processTask call is running
NoTask ==
  [pc |-> "none", classification |-> FallbackClassification, classified |-> FALSE,
   context |-> MinimalContext, handlers |-> <<>>, dispatcher |-> 0, executor |-> 0,
   llm |-> <<>>, result |-> NoResult, threw |-> FALSE]

VARIABLES
  store,         \* the users table
  store0,        \* the users table when the request arrived
  response,      \* what the planning completion returned
  pc,            \* "planning", "executing", "done"
  plan,          \* the plan createExecutionPlan returned
  planFailed,    \* createExecutionPlan threw
  results,       \* results of executePlan
  resultMap,     \* resultMap of executePlan
  calls,         \* calls[i]: the dispatcher calls of step i, in order
  escaped,       \* an exception left executePlan
  auditLog,      \* the aiAuditLogs entries logAction wrote: the error of each
  processResult, \* what processTask returned
  probe,         \* the last direct call of one function: [fn, in, out]
  task,          \* the processTask call of the coordinator the request is in
  service        \* the one ComplexExecutor of the service and the process calls in it

vars == <<store, store0, response, pc, plan, planFailed, results, resultMap, calls, escaped, auditLog, processResult,
         probe, task, service>>

Init ==
  /\ store \in InitialStores
  /\ store0 = store
  /\ response = [kind |-> "", steps |-> <<>>]
  /\ pc = "planning"
  /\ plan = <<>>
  /\ planFailed = FALSE
  /\ results = <<>>
  /\ resultMap = <<>>
  /\ calls = <<>>
  /\ escaped = FALSE
  /\ auditLog = <<>>
  /\ processResult = NoProcessResult
  /\ probe = [fn |-> "none"]
  /\ task = NoTask
  /\ service = NoService

\* process, catch branch: the result handed to handleComplexWorkflow
Caught == handleComplexWorkflow("Workflow failed")

\* logAction: one aiAuditLogs entry carrying the error text; logAction
\* catches its own failures, so the caller never sees an exception
logAction(log, error) == Append(log, error)

\* process up to the return of createExecutionPlan
CreatePlan ==
  /\ pc = "planning"
  /\ \E out \in LlmPlanOutputs :
       LET r == createExecutionPlan(out)
       IN /\ response' = out
          /\ IF r.ok
             THEN /\ plan' = r.plan
                  /\ pc' = "executing"
                  /\ UNCHANGED <<planFailed, processResult>>
             ELSE /\ planFailed' = TRUE
                  /\ pc' = "done"
                  /\ processResult' = Caught
                  /\ UNCHANGED plan
          /\ auditLog' = IF r.ok THEN auditLog ELSE logAction(auditLog, "Plan creation failed")
  /\ UNCHANGED <<store, store0, results, resultMap, calls, escaped, probe, task, service>>

\* one iteration of the loop of executePlan
ExecuteStep ==
  /\ pc = "executing"
  /\ Len(results) < Len(plan)
  /\ LET step == plan[Len(results) + 1]
     IN \E extr \in [1..ExtractionSlots(step, resultMap) -> LlmExtractions] :
          \E r \in {executePlanStep(step, resultMap, extr, store)} :
             IF r.threw
             THEN /\ escaped' = TRUE
                  /\ pc' = "done"
                  /\ store' = r.store
                  /\ calls' = Append(calls, r.calls)
                  /\ processResult' = Caught
                  /\ auditLog' = logAction(auditLog, "TypeError")
                  /\ UNCHANGED <<results, resultMap>>
             ELSE /\ results' = Append(results, r.result)
                  /\ resultMap' = [k \in DOMAIN resultMap \cup {step.id} |->
                                     IF k = step.id THEN r.result ELSE resultMap[k]]
                  /\ store' = r.store
                  /\ calls' = Append(calls, r.calls)
                  /\ UNCHANGED <<escaped, pc, processResult, auditLog>>
  /\ UNCHANGED <<store0, response, plan, planFailed, probe, task, service>>

\* executePlan returns: formatComplexResult, logAction, return
FinishPlan ==
  /\ pc = "executing"
  /\ Len(results) = Len(plan)
  /\ pc' = "done"
  /\ processResult' = handleComplexWorkflow("Dynamic Workflow Execution Results")
  /\ auditLog' = logAction(auditLog, "")
  /\ UNCHANGED <<store, store0, response, plan, planFailed, results, resultMap, calls, escaped,
                 probe, task, service>>

Next == CreatePlan \/ ExecuteStep \/ FinishPlan

Spec == Init /\ [][Next]_vars

\* ------------------------------------------------ a call of processTask
\* an element of the entities array of a classification
Entity(type, value) == [type |-> type, value |-> value]

\* what the classification completion may come back as: a failure, or a
\* classification that passed the schema
ClassifierCompletions ==
  {[ok |-> FALSE, classification |-> FallbackClassification]}
  \cup {[ok |-> TRUE,
          classification |-> [intent |-> "CRUD_OPERATION", operation |-> o, table |-> t,
                              entities |-> e]] :
          o \in {"", "CREATE", "DELETE", "LIST"}, t \in {"", "users", "products"},
          e \in {<<>>, <<Entity("email", Roster[1].email)>>,
                 <<Entity("name", <<"Di">>), Entity("email", <<"d", "@", "x", ".", "io">>)>>,
                 <<Entity("price", <<"x">>)>>}}
  \cup {[ok |-> TRUE,
          classification |-> [intent |-> i, operation |-> o, table |-> t,
                              entities |-> e]] :
          i \in Intents \ {"CRUD_OPERATION", "COMPLEX_WORKFLOW"}, o \in {"", "DELETE"},
          t \in {"", "users"}, e \in {<<>>, <<Entity("email", Roster[1].email)>>}}
  \cup {[ok |-> TRUE,
          classification |-> [FallbackClassification EXCEPT !.intent = "COMPLEX_WORKFLOW"]]}

\* a request arrives at the coordinator
CoordInit ==
  /\ store \in {<<>>, SubSeq(Roster, 1, MaxStore)}
  /\ store0 = store
  /\ response = [kind |-> "", steps |-> <<>>]
  /\ pc = "idle"
  /\ plan = <<>>
  /\ planFailed = FALSE
  /\ results = <<>>
  /\ resultMap = <<>>
  /\ calls = <<>>
  /\ escaped = FALSE
  /\ auditLog = <<>>
  /\ processResult = NoProcessResult
  /\ probe = [fn |-> "none"]
  /\ task = [NoTask EXCEPT !.pc = "classify"]
  /\ service = NoService

\* the variables of the plan executor
workflow == <<response, pc, plan, planFailed, results, resultMap, calls, escaped, processResult>>

\* step 1: classify; a classification that succeeded is logged
Classify ==
  /\ task.pc = "classify"
  /\ \E completion \in ClassifierCompletions :
       /\ task' = [task EXCEPT !.pc = "context",
                                !.classification = classify(completion),
                                !.classified = completion.ok]
       /\ auditLog' = IF completion.ok THEN logAction(auditLog, "") ELSE auditLog
  /\ UNCHANGED <<store, store0, workflow, probe, service>>

\* step 2: the database context, fetched when the intent needs it
LoadContext ==
  /\ task.pc = "context"
  /\ \E failed \in BOOLEAN :
       task' = [task EXCEPT !.pc = "route",
                            !.context =
                               IF INTENT_CONFIG(task.classification.intent).needsDbContext
                               THEN getDbContext(store, failed)
                               ELSE MinimalContext]
  /\ UNCHANGED <<store, store0, workflow, auditLog, probe, service>>

\* what the primary completion of generateResponse may come back as: an
\* error, text that is not JSON, the JSON null, a JSON object without a
\* message, a JSON object with a message
PrimaryOutcomes == {"error", "unparseable", "null", "no message", "message"}

\* step 3, handleWithIntelligence: generateResponse up to its return or
\* to its catch
RespondPrimary ==
  /\ task.pc = "route"
  /\ Route(task.classification.intent) = "handleWithIntelligence"
  /\ \E o \in PrimaryOutcomes :
       IF o \in {"message", "no message"}
       THEN /\ task' = [task EXCEPT
                          !.pc = "done",
                          !.handlers = Append(@, "handleWithIntelligence"),
                          !.llm = Append(@, [call |-> "primary", outcome |-> o]),
                          !.result = DirectResult(IF o = "message" THEN <<"message">> ELSE Undef,
                                                  <<"Analyzing user intent with AI reasoning",
                                                    "Understanding", "Reasoning">>)]
            /\ auditLog' = logAction(auditLog, "")
       ELSE /\ task' = [task EXCEPT
                          !.pc = "adaptive",
                          !.handlers = Append(@, "handleWithIntelligence"),
                          !.llm = Append(@, [call |-> "primary", outcome |-> o])]
            /\ UNCHANGED auditLog
  /\ UNCHANGED <<store, store0, workflow, probe, service>>

\* generateAdaptiveResponse: the plain-text completion, and the template
\* when it fails
RespondAdaptive ==
  /\ task.pc = "adaptive"
  /\ \E o \in {"error", "text"} :
       task' = [task EXCEPT
                  !.pc = "done",
                  !.llm = Append(@, [call |-> "adaptive", outcome |-> o]),
                  !.result =
                     IF o = "text"
                     THEN DirectResult(<<"text">>,
                                       <<"Analyzing user intent with AI reasoning",
                                         "Fell back to adaptive response generation",
                                         "Generated adaptive response">>)
                     ELSE DirectResult(Template,
                                       <<"Analyzing user intent with AI reasoning",
                                         "Fell back to adaptive response generation",
                                         "Used minimal contextual response">>)]
  /\ UNCHANGED <<store, store0, workflow, auditLog, probe, service>>

\* step 3, handleCrudOperation of the coordinator
DispatchCrud ==
  /\ task.pc = "route"
  /\ Route(task.classification.intent) = "handleCrudOperation"
  /\ IF EntityTypeOf(task.classification) \notin getAvailableEntityTypes
     THEN /\ task' = [task EXCEPT !.pc = "done",
                                  !.handlers = Append(@, "handleCrudOperation"),
                                  !.result = UnsupportedEntityType]
          /\ UNCHANGED store
     ELSE \E extracted \in LlmExtractions :
            \E r \in {handleCrudOperation(ValidOperation(task.classification),
                                          EntityTypeOf(task.classification),
                                          task.classification.entities, extracted, store)} :
              /\ task' = [task EXCEPT !.pc = "done",
                                      !.handlers = Append(@, "handleCrudOperation"),
                                      !.dispatcher = @ + 1,
                                      !.result = CrudProcessResult(r)]
              /\ store' = r.store
  /\ UNCHANGED <<store0, workflow, auditLog, probe, service>>

\* step 3, handleComplexWorkflow: the call of ComplexExecutor.process
StartWorkflow ==
  /\ task.pc = "route"
  /\ Route(task.classification.intent) = "handleComplexWorkflow"
  /\ pc = "idle"
  /\ pc' = "planning"
  /\ task' = [task EXCEPT !.pc = "workflow",
                          !.handlers = Append(@, "handleComplexWorkflow"),
                          !.executor = @ + 1]
  /\ UNCHANGED <<store, store0, response, plan, planFailed, results, resultMap, calls, escaped,
                 processResult, auditLog, probe, service>>

\* handleComplexWorkflow returns what process returned
ReturnWorkflow ==
  /\ task.pc = "workflow"
  /\ pc = "done"
  /\ task' = [task EXCEPT
                 !.pc = "done",
                 !.result = [success |-> processResult.success,
                             result |-> <<processResult.result>>,
                             strategy |-> processResult.strategy,
                             reasoning |-> <<"Classified as complex workflow">>]]
  /\ UNCHANGED <<store, store0, workflow, auditLog, probe, service>>

CoordNext ==
  \/ Classify \/ LoadContext \/ RespondPrimary \/ RespondAdaptive \/ DispatchCrud
  \/ StartWorkflow \/ CreatePlan \/ ExecuteStep \/ FinishPlan \/ ReturnWorkflow

CoordSpec == CoordInit /\ [][CoordNext]_vars

\* ------------------------------------------- functions called directly
\* the variables of a request, which a direct call leaves alone
request == <<store, store0, response, pc, plan, planFailed, results, resultMap, calls, escaped,
             auditLog, processResult, task, service>>

\* no request is running
UnitInit == Init /\ store = <<>>

ConditionTypes ==
  {"count_gt", "count_gte", "count_lt", "count_lte", "count_eq", "exists", "not_exists"}

\* a recorded StepResult with count c (NoCount: undefined) and n items
RecordedResult(c, n) ==
  [count |-> c,
   items |-> [i \in 1..n |-> [email |-> Roster[1].email, name |-> Roster[1].name,
                               _raw |-> FormatLine(Roster[1])]]]

\* evaluateCondition on a condition that refers to the recorded result "p"
EvalCondition ==
  /\ probe.fn = "none"
  /\ \E t \in ConditionTypes \cup {"bogus"}, f \in {"", "count", "items.length"},
        c \in (0..MaxCount) \cup {NoCount}, n \in 0..MaxCount, v \in 0..MaxCount :
       probe' = [fn |-> "evaluateCondition",
                 in |-> [type |-> t, field |-> f, count |-> c, items |-> n, value |-> v],
                 out |-> evaluateCondition([ConditionOf(t, "p", v) EXCEPT !.field = f],
                                           [k \in {"p"} |-> RecordedResult(c, n)])]
  /\ UNCHANGED request

\* the sort of a list step: none, or a field and a direction
SortChoices ==
  {NoSort} \cup {[by |-> b, order |-> o] : b \in {"name", "email", "_creationTime"},
                                          o \in {"asc", "desc"}}

\* executeSingleOperation on a list step with sort and limit; table is the
\* users table in creation order, returned the order in which the list
\* operation of the store hands the documents back
ScrapeList ==
  /\ probe.fn = "none"
  /\ \E n \in 0..MaxCount, srt \in SortChoices, lim \in 0..MaxCount :
       \E p \in Permutations(1..n) :
         LET table == SubSeq(Roster, 1, n)
             returned == [k \in 1..n |-> table[p[k]]]
         IN probe' = [fn |-> "executeSingleOperation",
                      in |-> [table |-> table, returned |-> returned, sort |-> srt,
                              limit |-> lim],
                      out |-> executeSingleOperation(
                                [StepOf("list", "users", <<>>, Undef) EXCEPT
                                   !.id = "s1", !.sort = srt, !.limit = lim],
                                <<>>, returned).result]
  /\ UNCHANGED request

\* the products configuration that initializeEntityConfigs keeps in a
\* comment: its store functions were never created
ProductsConfig ==
  [table |-> "products",
   operations |-> [create |-> "functions.products.createProduct",
                   read   |-> "functions.products.getProduct",
                   update |-> "functions.products.updateProduct",
                   delete |-> "functions.products.deleteProduct",
                   list   |-> "functions.products.listProducts"],
   fields |-> <<"name", "price", "description", "category">>,
   required |-> {"name", "price"},
   validated |-> {},
   identifierField |-> "name"]

\* a configuration whose operations object names no operation
BareConfig ==
  [ProductsConfig EXCEPT !.operations = [create |-> NoHandle, read |-> NoHandle,
                                         update |-> NoHandle, delete |-> NoHandle,
                                         list |-> NoHandle]]

addEntityConfig(configs, entityType, config) ==
  [t \in DOMAIN configs \cup {entityType} |-> IF t = entityType THEN config ELSE configs[t]]

\* the entityConfigs of a handler: as constructed, or with a products
\* configuration added
Registries ==
  {entityConfigs,
   addEntityConfig(entityConfigs, "products", ProductsConfig),
   addEntityConfig(entityConfigs, "products", BareConfig)}

\* an email the validator of the email field rejects
Malformed == <<"b", "x", ".", "io">>

DispatchEntities ==
  {<<>>,
   <<Entity("name", <<"Di">>)>>,
   <<Entity("email", Roster[1].email)>>,
   <<Entity("email", Malformed)>>,
   <<Entity("name", <<"Di">>), Entity("email", <<"d", "@", "x", ".", "io">>)>>,
   <<Entity("name", <<"Di">>), Entity("email", Malformed)>>,
   <<Entity("name", <<>>), Entity("email", <<"d", "@", "x", ".", "io">>)>>,
   <<Entity("name", <<"Zed">>), Entity("email", Roster[1].email)>>}

DispatchExtractions ==
  LlmExtractions \cup {[f \in {"email"} |-> Malformed],
                       [f \in {"name"} |-> <<>>],
                       [f \in {"bio"} |-> <<"x">>]}

DispatchOperations == {"CREATE", "READ", "UPDATE", "DELETE", "LIST", "PURGE"}

\* handleCrudOperation called directly
CallDispatcher ==
  /\ probe.fn = "none"
  /\ \E configs \in Registries, operation \in DispatchOperations,
        entityType \in {"users", "products", "orders"}, entities \in DispatchEntities,
        extracted \in DispatchExtractions, n \in {0, MaxStore} :
       probe' = [fn |-> "handleCrudOperation",
                 in |-> [configs |-> configs, operation |-> operation,
                         entityType |-> entityType, entities |-> entities,
                         extracted |-> extracted, store |-> SubSeq(Roster, 1, n)],
                 out |-> Dispatch(configs, operation, entityType, entities, extracted,
                                  SubSeq(Roster, 1, n))]
  /\ UNCHANGED request

\* the result of the read keyed on email that follows the create whose
\* result is created
ReadAfter(created, email) ==
  [create |-> created,
   read |-> Dispatch(entityConfigs, "READ", "users", <<Entity("email", email)>>, <<>>,
                     created.store)]

\* a create of a user followed by a read keyed on the email given to the
\* create
CreateThenRead ==
  /\ probe.fn = "none"
  /\ \E u \in 1..Len(Roster), extracted \in DispatchExtractions, n \in 0..MaxStore :
       probe' = [fn |-> "createThenRead",
                 in |-> [name |-> Roster[u].name, email |-> Roster[u].email,
                         extracted |-> extracted, store |-> SubSeq(Roster, 1, n)],
                 out |-> ReadAfter(Dispatch(entityConfigs, "CREATE", "users",
                                            <<Entity("name", Roster[u].name),
                                              Entity("email", Roster[u].email)>>,
                                            extracted, SubSeq(Roster, 1, n)),
                                   Roster[u].email)]
  /\ UNCHANGED request

\* the result of the list that follows the list whose result is first
ListAfter(configs, entityType, first) ==
  [first |-> first, second |-> Dispatch(configs, "LIST", entityType, <<>>, <<>>, first.store)]

\* two list dispatches on one entity type with nothing in between
ListTwice ==
  /\ probe.fn = "none"
  /\ \E configs \in Registries, entityType \in {"users", "products", "orders"},
        st \in InitialStores :
       probe' = [fn |-> "listTwice",
                 in |-> [configs |-> configs, entityType |-> entityType, store |-> st],
                 out |-> ListAfter(configs, entityType,
                                   Dispatch(configs, "LIST", entityType, <<>>, <<>>, st))]
  /\ UNCHANGED request

\* what the planning completion may read as
CompletionTexts ==
  {<<"{", "STEPS", "}">>,
   <<"FENCE_JSON", "{", "STEPS", "}", "FENCE">>,
   <<"FENCE", "{", "STEPS", "}", "FENCE">>,
   <<"PROSE", "{", "STEPS", "}">>,
   <<"PROSE", "FENCE_JSON", "{", "STEPS", "}", "FENCE", "PROSE">>,
   <<"{", "STEPS", "}", "PROSE", "}">>,
   <<"{", "STEPS">>,
   <<"FENCE_JSON", "null", "FENCE">>,
   <<"{", "STEPS_OBJ", "}">>,
   <<"FENCE_JSON", "{", "}", "FENCE">>,
   <<"PROSE">>,
   <<>>}

\* the steps the steps array of a completion may hold
CompletionPlans ==
  InvalidPlans
  \cup {<<>>}
  \cup { <<[s EXCEPT !.id = "s1"]>> : s \in PlainSteps }
  \cup { <<[StepOf("list", "users", <<>>, Undef) EXCEPT !.id = "s1"],
           [StepOf(op, t, NewUser, Undef) EXCEPT !.id = "s2"]>> :
           op \in {"create", "purge"}, t \in {"users", "orders"} }

\* the first step of an accepted plan, run on an empty table
FirstStepRun(p) ==
  IF p.ok /\ Len(p.plan) > 0
  THEN [ran |-> TRUE,
        result |-> executePlanStep(p.plan[1], <<>>, <<>>, <<>>).result]
  ELSE [ran |-> FALSE, result |-> SkippedResult(StepOf("", "", <<>>, Undef))]

\* createExecutionPlan called on a completion
CallCreateExecutionPlan ==
  /\ probe.fn = "none"
  /\ \E text \in CompletionTexts, steps \in CompletionPlans :
       \E p \in {createExecutionPlan(parseJSON(text, steps))} :
         probe' = [fn |-> "createExecutionPlan",
                   in |-> [text |-> text, steps |-> steps],
                   out |-> [ok |-> p.ok, plan |-> p.plan, first |-> FirstStepRun(p)]]
  /\ UNCHANGED request

\* the values of the name of an item: null, or a name
SortValues == {Undef, Roster[1].name, Roster[3].name}

\* items whose names are the values of v; _raw tells them apart
SortItemsOf(v) ==
  [k \in 1..Len(v) |-> [email |-> Undef, name |-> v[k], _raw |-> <<ToString(k)>>]]

\* sortItems called directly
CallSortItems ==
  /\ probe.fn = "none"
  /\ \E n \in 0..MaxCount, by \in {"name", "createdAt"}, order \in {"asc", "desc"} :
       \E v \in [1..n -> SortValues] :
         probe' = [fn |-> "sortItems",
                   in |-> [items |-> SortItemsOf(v), by |-> by, order |-> order],
                   out |-> sortItems(SortItemsOf(v), [by |-> by, order |-> order])]
  /\ UNCHANGED request

\* the data of a step that is keyed by an identifier: none, a new name,
\* the email of another record, a new name and the email of another
\* record, an email no record has
KeyedData ==
  {<<>>, NewName,
   <<[key |-> "email", value |-> Roster[3].email]>>,
   NewName \o <<[key |-> "email", value |-> Roster[3].email]>>,
   <<[key |-> "email", value |-> NewUser[2].value]>>}

\* executeSingleOperation called on a read, update or delete step that
\* has an identifier, as a plan or a fan-out over items gives it
CallKeyedOperation ==
  /\ probe.fn = "none"
  /\ \E op \in {"read", "update", "delete"}, data \in KeyedData,
        identifier \in {Roster[1].email, Roster[4].email}, extracted \in LlmExtractions :
       probe' = [fn |-> "keyedOperation",
                 in |-> [operation |-> op, data |-> data, identifier |-> identifier,
                         extracted |-> extracted, store |-> SubSeq(Roster, 1, 3)],
                 out |-> executeSingleOperation(
                           [StepOf(op, "users", data, identifier) EXCEPT !.id = "s1"],
                           extracted, SubSeq(Roster, 1, 3))]
  /\ UNCHANGED request

\* executeSingleOperation called on a create step: a new user, or a
\* user whose email the first record of the roster has
CallCreateStep ==
  /\ probe.fn = "none"
  /\ \E data \in {NewUser, NewName \o <<[key |-> "email", value |-> Roster[1].email]>>},
        extracted \in LlmExtractions, n \in 0..MaxStore :
       probe' = [fn |-> "createStep",
                 in |-> [data |-> data, extracted |-> extracted,
                         store |-> SubSeq(Roster, 1, n)],
                 out |-> executeSingleOperation(
                           [StepOf("create", "users", data, Undef) EXCEPT !.id = "s1"],
                           extracted, SubSeq(Roster, 1, n))]
  /\ UNCHANGED request

\* handleCrudOperation of the coordinator from the check of the entity
\* type on: [dispatched, crud, result]
CoordinatorCrud(classification, extracted, st) ==
  IF EntityTypeOf(classification) \notin getAvailableEntityTypes
  THEN [dispatched |-> FALSE,
        crud |-> CrudFail("", EntityTypeOf(classification), <<>>, <<>>, st),
        result |-> UnsupportedEntityType]
  ELSE [dispatched |-> TRUE,
        crud |-> handleCrudOperation(ValidOperation(classification),
                                     EntityTypeOf(classification),
                                     classification.entities, extracted, st),
        result |-> CrudProcessResult(
                     handleCrudOperation(ValidOperation(classification),
                                         EntityTypeOf(classification),
                                         classification.entities, extracted, st))]

\* the operation of a classification handed to handleCrudOperation:
\* missing, one of the five in either case, or another word
ClassifiedOperations == {"", "LIST", "DELETE", "delete", "create", "PURGE", "drop"}

\* handleCrudOperation of the coordinator called on a classification
CallCoordinatorCrud ==
  /\ probe.fn = "none"
  /\ \E o \in ClassifiedOperations, t \in {"", "users", "products"},
        e \in {<<>>, <<Entity("email", Roster[1].email)>>,
               <<Entity("name", <<"Di">>), Entity("email", <<"d", "@", "x", ".", "io">>)>>},
        extracted \in LlmExtractions, n \in {0, MaxStore} :
       probe' = [fn |-> "coordinatorCrud",
                 in |-> [operation |-> o, table |-> t, entities |-> e,
                         extracted |-> extracted, store |-> SubSeq(Roster, 1, n)],
                 out |-> CoordinatorCrud([intent |-> "CRUD_OPERATION", operation |-> o,
                                          table |-> t, entities |-> e],
                                         extracted, SubSeq(Roster, 1, n))]
  /\ UNCHANGED request

\* the session ids of the conversationHistory table
SessionIds == {"A", "B"}

\* the conversationHistory table at time now: a row per session that
\* was created, each with its messages and the time of its last access
SessionTables(now) ==
  UNION { [ids -> [messages : {<<>>, <<[role |-> "human", content |-> "hi"],
                                      [role |-> "ai", content |-> "hello"]>>},
                   lastAccessTime : 0..now]] :
          ids \in SUBSET SessionIds }

\* cleanupOldSessions: the rows last accessed before now - maxAgeMs are
\* deleted
cleanupOldSessions(table, now, maxAgeMs) ==
  [id \in {i \in DOMAIN table : ~(table[i].lastAccessTime < now - maxAgeMs)} |-> table[id]]

\* ConvexMemory.clear of the memory of session sessionId
clear(table, now, sessionId) == cleanupOldSessions(table, now, 0)

\* clear called on the memory of one session
CallClear ==
  /\ probe.fn = "none"
  /\ \E now \in 0..MaxCount, sessionId \in SessionIds :
       \E table \in SessionTables(now) :
         probe' = [fn |-> "clear",
                   in |-> [table |-> table, now |-> now, sessionId |-> sessionId],
                   out |-> clear(table, now, sessionId)]
  /\ UNCHANGED request

UnitNext ==
  \/ EvalCondition \/ ScrapeList \/ CallDispatcher \/ CreateThenRead \/ ListTwice
  \/ CallCreateExecutionPlan \/ CallSortItems \/ CallKeyedOperation \/ CallCreateStep
  \/ CallCoordinatorCrud \/ CallClear

UnitSpec == UnitInit /\ [][UnitNext]_vars

\* ------------------------------------ two requests in the service at once
\* the plans the planning completion returns here: n list steps or n
\* create steps
ConcurrentPlans ==
  { [i \in 1..n |-> [StepOf(op, "users", IF op = "create" THEN NewUser ELSE <<>>, Undef)
                       EXCEPT !.id = StepIds[i]]] :
      op \in {"list", "create"}, n \in 0..MaxSteps }

ConcurrentPlanOutputs ==
  {[kind |-> "throws", steps |-> <<>>]}
  \cup {[kind |-> "plan", steps |-> p] : p \in ConcurrentPlans}

\* an entry of a reasoning array, with the request whose call pushed it
Line(r, text) == [request |-> r, text |-> text]

\* a StepResult of the results array of the executePlan call of request r
Recorded(r, result) == [request |-> r, result |-> result]

\* this.reasoning.push(text) in the process call of request r
Push(svc, r, text) == [svc EXCEPT !.reasoning = Append(@, Line(r, text))]

\* two POST requests have reached complexExecutor.process of the one
\* coordinator of the module
ConcInit ==
  /\ store \in {<<>>, SubSeq(Roster, 1, 1)}
  /\ store0 = store
  /\ response = [kind |-> "", steps |-> <<>>]
  /\ pc = "idle"
  /\ plan = <<>>
  /\ planFailed = FALSE
  /\ results = <<>>
  /\ resultMap = <<>>
  /\ calls = <<>>
  /\ escaped = FALSE
  /\ auditLog = <<>>
  /\ processResult = NoProcessResult
  /\ probe = [fn |-> "none"]
  /\ task = NoTask
  /\ service = [NoService EXCEPT
                  !.running = [r \in Requests |-> [@[r] EXCEPT !.pc = "arrived"]]]

\* the variables a process call of the service leaves alone
single == <<store0, response, pc, plan, planFailed, results, resultMap, calls, escaped,
            processResult, probe, task>>

\* process up to the await of createExecutionPlan: this.reasoning is
\* assigned a new array
ProcessStarts(r) ==
  /\ service.running[r].pc = "arrived"
  /\ service' = [service EXCEPT
                   !.reasoning = <<Line(r, "Starting dynamic workflow execution"),
                                   Line(r, "Generating AI execution plan")>>,
                   !.running[r].pc = "planning"]
  /\ UNCHANGED <<store, auditLog, single>>

\* createExecutionPlan returns or throws; process runs on to the first
\* await of executePlan, or to the await of logAction in its catch
PlanReturns(r) ==
  /\ service.running[r].pc = "planning"
  /\ \E out \in ConcurrentPlanOutputs :
       \E p \in {createExecutionPlan(out)} :
         service' =
           IF p.ok
           THEN [Push(Push(service, r, "Plan created"), r, "Executing plan steps")
                   EXCEPT !.running[r].pc = "executing", !.running[r].plan = p.plan]
           ELSE [Push(service, r, "Error") EXCEPT !.running[r].pc = "logging"]
  /\ UNCHANGED <<store, auditLog, single>>

\* one iteration of the loop of executePlan in the call of request r
StepReturns(r) ==
  /\ service.running[r].pc = "executing"
  /\ Len(service.running[r].results) < Len(service.running[r].plan)
  /\ \E step \in {service.running[r].plan[Len(service.running[r].results) + 1]} :
       \E extr \in [1..ExtractionSlots(step, service.running[r].resultMap) -> LlmExtractions] :
         \E x \in {executePlanStep(step, service.running[r].resultMap, extr, store)} :
           /\ store' = x.store
           /\ service' =
                [Push(service, r, step.id) EXCEPT
                   !.running[r].results = Append(@, Recorded(r, x.result)),
                   !.running[r].resultMap =
                      [k \in DOMAIN @ \cup {step.id} |->
                         IF k = step.id THEN x.result ELSE @[k]]]
  /\ UNCHANGED <<auditLog, single>>

\* executePlan returns; process runs on to the await of logAction
PlanDone(r) ==
  /\ service.running[r].pc = "executing"
  /\ Len(service.running[r].results) = Len(service.running[r].plan)
  /\ service' = [Push(service, r, "Workflow completed successfully")
                   EXCEPT !.running[r].pc = "logging"]
  /\ UNCHANGED <<store, auditLog, single>>

\* logAction returns; process returns the result and this.reasoning
ProcessReturns(r) ==
  /\ service.running[r].pc = "logging"
  /\ service' = [service EXCEPT
                   !.running[r].pc = "done",
                   !.running[r].returned =
                      [reasoning |-> service.reasoning,
                       results |-> service.running[r].results]]
  /\ auditLog' = logAction(auditLog, "")
  /\ UNCHANGED <<store, single>>

ConcNext ==
  \E r \in Requests :
    \/ ProcessStarts(r) \/ PlanReturns(r) \/ StepReturns(r) \/ PlanDone(r)
    \/ ProcessReturns(r)

ConcSpec == ConcInit /\ [][ConcNext]_vars

\* ------------------------------------------------------------- claims
\* resultMap as step i found it
ResultMapBefore(i) ==
  [k \in {plan[j].id : j \in 1..(i - 1)} |->
     results[CHOOSE j \in 1..(i - 1) :
               plan[j].id = k /\ \A j2 \in (j + 1)..(i - 1) : plan[j2].id # k]]

\* the condition of step i was false when the step was reached
Gated(i) ==
  /\ plan[i].condition.type # "none"
  /\ ~evaluateCondition(plan[i].condition, ResultMapBefore(i))

\* the items step i found under its fromStep
ReferencedItems(i) == PriorItems(ResultMapBefore(i), plan[i].fromStep)

\* step i ran the per-item loop
FanOutRan(i) ==
  /\ plan[i].fromStep # ""
  /\ ~Gated(i)
  /\ plan[i].operation # NonString
  /\ ReferencedItems(i) # <<>>

\* step i raised an exception
StepThrew(i) ==
  /\ plan[i].operation = NonString
  /\ ~Gated(i)
  /\ plan[i].fromStep # "" => ReferencedItems(i) # <<>>

AllSucceeded(cs) == \A k \in 1..Len(cs) : cs[k].success

\* C1: a step whose condition evaluates to false against the recorded
\* results makes no dispatcher call and resolves with success = true,
\* meta.skipped = true and count = 0
C1_GatedStepNotDispatched ==
  \A i \in 1..Len(results) :
    Gated(i) =>
      /\ calls[i] = <<>>
      /\ results[i].success
      /\ results[i].meta.skipped
      /\ results[i].count = 0

\* a gated step that also names a fromStep with items, after a step that ran
C1_Witness ==
  \E i \in 1..Len(results) :
    /\ Gated(i)
    /\ plan[i].condition.fromStep \in DOMAIN ResultMapBefore(i)
    /\ plan[i].fromStep # "" /\ ReferencedItems(i) # <<>>
    /\ results[i].meta.skipped

\* C2 (as claimed): a condition whose fromStep names no recorded result
\* makes the step skipped, with no dispatcher call
C2_UnrecordedReferenceSkips ==
  \A i \in 1..Len(results) :
    (/\ plan[i].condition.type # "none"
     /\ plan[i].condition.fromStep \notin {plan[j].id : j \in 1..(i - 1)})
    => (results[i].meta.skipped /\ calls[i] = <<>>)

\* C3: a failed or throwing step is recorded with success = false, no
\* exception leaves executePlan, the later steps are still processed and
\* there is one result per step, in plan order
C3_FailureRecordedPlanCompleted ==
  /\ ~escaped
  /\ Len(results) <= Len(plan)
  /\ Len(calls) = Len(results)
  /\ \A i \in 1..Len(results) :
       /\ results[i].stepId = plan[i].id
       /\ (StepThrew(i) \/ ~AllSucceeded(calls[i])) => ~results[i].success
  /\ (pc = "done" /\ ~planFailed) => Len(results) = Len(plan)

\* a step threw, a later step was dispatched and failed, and the run is over
C3_Witness ==
  /\ pc = "done"
  /\ \E i \in 1..Len(results) : \E j \in (i + 1)..Len(results) :
       /\ StepThrew(i) /\ ~results[i].success
       /\ calls[j] # <<>> /\ ~AllSucceeded(calls[j]) /\ ~results[j].success

\* the planning completion is one createExecutionPlan must reject
Rejectable(resp) ==
  \/ resp.kind # "plan"
  \/ \E i \in 1..Len(resp.steps) :
       resp.steps[i].id = "" \/ resp.steps[i].operation = "" \/ resp.steps[i].entityType = ""

\* C4: when plan generation fails there is no dispatcher call, no store
\* change and no plan is executed
C4_NoExecutionWithoutPlan ==
  (pc # "planning" /\ Rejectable(response)) =>
    /\ pc = "done"
    /\ plan = <<>>
    /\ results = <<>>
    /\ calls = <<>>
    /\ store = store0

\* a parseable plan with a step that has no id, on a store with users
C4_Witness ==
  /\ pc = "done" /\ planFailed
  /\ response.kind = "plan" /\ Len(response.steps) > 1
  /\ store0 # <<>>

\* C5 (as claimed): a request whose plan generation failed is reported
\* with success = false
C5_PlanFailureReported ==
  (pc = "done" /\ planFailed) => ~processResult.success

\* C6 (as claimed): for a fan-out step whose per-item calls all succeed,
\* count is the sum of the per-item counts and ids has that length
C6_FanOutCountAndIds ==
  \A i \in 1..Len(results) :
    (FanOutRan(i) /\ AllSucceeded(calls[i])) =>
      /\ results[i].count = SumCounts(calls[i], 1)
      /\ Len(results[i].ids) = results[i].count

\* C7: a fan-out step calls the dispatcher once per referenced item, its
\* success is the conjunction of the per-item successes, and with no
\* referenced items it makes no call and resolves with success and count 0
C7_FanOutOncePerItem ==
  \A i \in 1..Len(results) :
    (plan[i].fromStep # "" /\ ~Gated(i) /\ plan[i].operation # NonString) =>
      /\ Len(calls[i]) = Len(ReferencedItems(i))
      /\ results[i].success = AllSucceeded(calls[i])
      /\ ReferencedItems(i) = <<>> =>
           (calls[i] = <<>> /\ results[i].success /\ results[i].count = 0)

\* a fan-out over two items of which one call failed and one succeeded
C7_Witness ==
  \E i \in 1..Len(results) :
    /\ FanOutRan(i)
    /\ Len(calls[i]) = 2
    /\ \E k \in 1..2 : calls[i][k].success
    /\ \E k \in 1..2 : ~calls[i][k].success
    /\ ~results[i].success

\* C8 (as claimed): a fan-out step with an explicit identifier uses it for
\* every per-item call
C8_ExplicitIdentifierUsed ==
  \A i \in 1..Len(results) :
    (FanOutRan(i) /\ plan[i].identifier # Undef) =>
      \A k \in 1..Len(calls[i]) : calls[i][k].identifier = plan[i].identifier

\* C8 (amended): every per-item call uses the email of its item when the
\* item has one, and the identifier of the step only when it has none
C8_ItemIdentifierFirst ==
  \A i \in 1..Len(results) :
    FanOutRan(i) =>
      \A k \in 1..Len(calls[i]) :
        k <= Len(ReferencedItems(i)) =>
          calls[i][k].identifier =
            IF ReferencedItems(i)[k].email # Undef
            THEN ReferencedItems(i)[k].email
            ELSE plan[i].identifier

\* a fan-out with an explicit identifier whose calls used the items' emails
C8_Witness ==
  \E i \in 1..Len(results) :
    /\ FanOutRan(i)
    /\ plan[i].identifier # Undef
    /\ \E k \in 1..Len(calls[i]) :
         /\ calls[i][k].identifier # plan[i].identifier
         /\ calls[i][k].identifier = ReferencedItems(i)[k].email

\* C9 (as claimed): a fan-out step with limit N calls the dispatcher for at
\* most N of the referenced items
C9_FanOutHonoursLimit ==
  \A i \in 1..Len(results) :
    (FanOutRan(i) /\ plan[i].limit > 0) => Len(calls[i]) <= plan[i].limit

\* C10: a step with repeat = N > 1 and no fromStep calls the dispatcher N
\* times with the operation, entity type, data and identifier of the step,
\* and aggregates them: success is the conjunction, count the sum, ids the
\* concatenation
C10_RepeatNTimes ==
  \A i \in 1..Len(results) :
    (/\ plan[i].repeat > 1 /\ plan[i].fromStep = ""
     /\ ~Gated(i) /\ plan[i].operation # NonString) =>
      /\ Len(calls[i]) = plan[i].repeat
      /\ \A k \in 1..Len(calls[i]) :
           /\ calls[i][k].operation = toUpperCase(plan[i].operation)
           /\ calls[i][k].entityType = plan[i].entityType
           /\ calls[i][k].identifier = plan[i].identifier
           /\ calls[i][k].entities = calls[i][1].entities
           /\ \A d \in 1..Len(plan[i].data) :
                calls[i][k].entities[d] =
                  [type |-> plan[i].data[d].key, value |-> plan[i].data[d].value]
      /\ results[i].success = AllSucceeded(calls[i])
      /\ results[i].count = SumCounts(calls[i], 1)
      /\ results[i].ids = FlatIds(calls[i], 1)

\* a repeated create: the first call inserted, the rest found the user
C10_Witness ==
  \E i \in 1..Len(results) :
    /\ plan[i].repeat > 1 /\ plan[i].fromStep = "" /\ plan[i].operation = "create"
    /\ Len(calls[i]) = plan[i].repeat
    /\ results[i].count = plan[i].repeat
    /\ Len(store) = Len(store0) + 1

\* the comparison a condition type names
Reference(type, count, value) ==
  CASE type = "count_gt"   -> count > value
    [] type = "count_gte"  -> count >= value
    [] type = "count_lt"   -> count < value
    [] type = "count_lte"  -> count <= value
    [] type = "count_eq"   -> count = value
    [] type = "exists"     -> count > 0
    [] type = "not_exists" -> count = 0

\* C11: for every condition type and every (count, value) pair,
\* evaluateCondition on the count field returns the comparison the type
\* names, count being the recorded count or, when none is recorded, the
\* number of recorded items
C11_ConditionIsReferenceComparison ==
  (probe.fn = "evaluateCondition" /\ probe.in.type \in ConditionTypes
     /\ probe.in.field \in {"", "count"})
  => probe.out = Reference(probe.in.type,
                           IF probe.in.count # NoCount THEN probe.in.count ELSE probe.in.items,
                           probe.in.value)

\* evaluateCondition was called with count_gte and value = count
C11_Witness ==
  /\ probe.fn = "evaluateCondition"
  /\ probe.in.type = "count_gte" /\ probe.in.field = ""
  /\ probe.in.count = 2 /\ probe.in.value = 2
  /\ probe.out = TRUE

\* the step before step i that recorded the result the condition of step i
\* reads, 0 when there is none
ConditionSource(i) ==
  IF \E j \in 1..(i - 1) : plan[j].id = plan[i].condition.fromStep
  THEN CHOOSE j \in 1..(i - 1) :
         /\ plan[j].id = plan[i].condition.fromStep
         /\ \A j2 \in (j + 1)..(i - 1) : plan[j2].id # plan[i].condition.fromStep
  ELSE 0

\* the value the condition of step i compares, read from the result recorded at j
RecordedValue(i, j) ==
  IF plan[i].condition.field = "items.length" THEN Len(results[j].items)
  ELSE IF results[j].count # NoCount THEN results[j].count
  ELSE Len(results[j].items)

\* the dispatcher calls the operation of step i makes once its condition
\* is met
OperationCalls(i) ==
  IF plan[i].operation = NonString THEN 0
  ELSE IF plan[i].fromStep # "" THEN Len(ReferencedItems(i))
  ELSE IF plan[i].repeat > 1 THEN plan[i].repeat
  ELSE 1

\* C12: a step whose condition refers to an earlier step is skipped exactly
\* when the comparison fails on the StepResult recorded for that step,
\* whatever the table holds by then, and the dispatcher calls of the step
\* are those of its operation alone
C12_ConditionFromRecordedResult ==
  \A i \in 1..Len(results) :
    (plan[i].condition.type \in ConditionTypes /\ ConditionSource(i) # 0)
    => /\ results[i].meta.skipped
            = ~Reference(plan[i].condition.type, RecordedValue(i, ConditionSource(i)),
                         plan[i].condition.value)
       /\ Len(calls[i]) = IF results[i].meta.skipped THEN 0 ELSE OperationCalls(i)

\* the third step was skipped on the count recorded by the first although
\* the second step changed the table so that a fresh count would pass
C12_Witness ==
  /\ Len(results) = 3
  /\ plan[3].condition.fromStep = "s1" /\ plan[3].condition.type = "count_gt"
  /\ results[3].meta.skipped
  /\ Len(store) # Len(store0)
  /\ Reference(plan[3].condition.type, Len(store), plan[3].condition.value)

\* the plan of scenarios B and C has run: list users, then create a user
\* on condition count_lte 3 of the list
ScenarioPlanDone ==
  /\ Len(plan) = 2 /\ Len(results) = 2
  /\ plan[1] = [StepOf("list", "users", <<>>, Undef) EXCEPT !.id = "s1"]
  /\ plan[2] = [StepOf("create", "users", NewUser, Undef) EXCEPT
                  !.id = "s2", !.condition = ConditionOf("count_lte", "s1", 3)]

\* C13: after the plan of scenarios B and C, a table that held 2 users had
\* the create dispatched and succeeding; a table that held 5 users had it
\* skipped with count 0 and is unchanged
C13_ScenariosBAndC ==
  ScenarioPlanDone
  => /\ Len(store0) = 2
          => (~results[2].meta.skipped /\ Len(calls[2]) = 1 /\ results[2].success)
     /\ Len(store0) = 5
          => (results[2].meta.skipped /\ results[2].count = 0 /\ store = store0)

\* step i is the plain step "list products" and has run
ListProductsRan(i) ==
  /\ i <= Len(results)
  /\ plan[i] = [StepOf("list", "products", <<>>, Undef) EXCEPT !.id = plan[i].id]

ReturnedItems(returned) == [k \in 1..Len(returned) |-> ParseItem(FormatLine(returned[k]))]

\* the stable order of items under the comparator of sort: the permutation
\* that puts an item before another when it compares smaller, or compares
\* equal and came first
StableOrder(items, sort) ==
  CHOOSE p \in Permutations(1..Len(items)) :
    \A k, l \in 1..Len(items) :
      k < l => \/ Compare(items[p[k]], items[p[l]], sort) < 0
               \/ (Compare(items[p[k]], items[p[l]], sort) = 0 /\ p[k] < p[l])

FullySorted(items, sort) ==
  IF sort.by = "" THEN items
  ELSE [k \in 1..Len(items) |-> items[StableOrder(items, sort)[k]]]

FirstOf(items, limit) ==
  IF limit # 0 /\ Len(items) > limit THEN SubSeq(items, 1, limit) ELSE items

\* C15: for a list step with sort and limit the items are the first limit
\* items of the fully sorted list, count is their number and ids are their
\* non-empty emails in that order
C15_LimitAfterSort ==
  (probe.fn = "executeSingleOperation" /\ probe.in.sort.by # "" /\ probe.in.limit # 0)
  => LET expected == FirstOf(FullySorted(ReturnedItems(probe.in.returned), probe.in.sort),
                             probe.in.limit)
     IN /\ probe.out.items = expected
        /\ probe.out.count = Len(expected)
        /\ probe.out.ids = TruthyEmails(expected, 1)

\* a list of three sorted by name and cut to one, whose first item is not
\* the one the store handed back first
C15_Witness ==
  /\ probe.fn = "executeSingleOperation"
  /\ probe.in.sort = [by |-> "name", order |-> "asc"] /\ probe.in.limit = 1
  /\ Len(probe.in.returned) = 3
  /\ Len(probe.out.items) = 1
  /\ probe.out.items[1].name = <<"Al">>
  /\ probe.in.returned[1].name # <<"Al">>

ConfigOf(in) == in.configs[in.entityType]

\* the operation is one of the five and the entity type has a config
Handled(in) ==
  /\ in.entityType \in DOMAIN in.configs
  /\ in.operation \in {"CREATE", "READ", "UPDATE", "DELETE", "LIST"}

\* the handle the config gives the operation
HandleOf(in) ==
  CASE in.operation = "CREATE" -> ConfigOf(in).operations.create
    [] in.operation = "READ"   -> ConfigOf(in).operations.read
    [] in.operation = "UPDATE" -> ConfigOf(in).operations.update
    [] in.operation = "DELETE" -> ConfigOf(in).operations.delete
    [] in.operation = "LIST"   -> ConfigOf(in).operations.list

\* the draft record of a create or update
DraftOf(in) == extractEntityData(ConfigOf(in), in.entities, in.extracted)

IdentifierOf(in) == FindEntity(in.entities, ConfigOf(in).identifierField, 1)

\* the arguments the handler hands to executeOperation
ArgsOf(in) ==
  CASE in.operation = "CREATE" -> DraftOf(in)
    [] in.operation = "UPDATE" ->
         [f \in DOMAIN DraftOf(in) \cup {ConfigOf(in).identifierField} |->
            IF f = ConfigOf(in).identifierField THEN IdentifierOf(in) ELSE DraftOf(in)[f]]
    [] in.operation = "LIST" -> <<>>
    [] OTHER -> [f \in {ConfigOf(in).identifierField} |-> IdentifierOf(in)]

\* the required fields the draft record lacks or holds empty
MissingRequired(in) ==
  {f \in ConfigOf(in).required : f \notin DOMAIN DraftOf(in) \/ DraftOf(in)[f] = Undef}

\* the handler reaches its call of executeOperation
ReachesExecute(in) ==
  /\ Handled(in)
  /\ HandleOf(in) # NoHandle
  /\ CASE in.operation = "CREATE" -> validateEntityData(ConfigOf(in), DraftOf(in), "CREATE") = Undef
        [] in.operation = "LIST"   -> TRUE
        [] OTHER -> IdentifierOf(in) # Undef

\* resolving the handle or the store function throws
ExecuteThrew(in) ==
  ReachesExecute(in) /\ executeOperation(HandleOf(in), ArgsOf(in), in.store).threw

\* C17: handleCrudOperation never throws, and when resolving the handle
\* or the store function threw it returns success = false with an error
\* message
C17_DispatcherNeverThrows ==
  probe.fn = "handleCrudOperation"
  => /\ ~probe.out.threw
     /\ ExecuteThrew(probe.in)
          => /\ probe.out.res.success = FALSE
             /\ probe.out.res.error # Undef

\* a store function that was called threw
C17_Witness ==
  /\ probe.fn = "handleCrudOperation"
  /\ ExecuteThrew(probe.in)
  /\ HandleOf(probe.in) \in api
  /\ ~probe.out.threw
  /\ probe.out.res.success = FALSE

\* the entity type has no config, or the config gives the operation no
\* handle or a handle that does not resolve
NotDispatchable(in) ==
  \/ in.entityType \notin DOMAIN in.configs
  \/ Handled(in) /\ HandleOf(in) \notin api

\* the result reports a missing configuration: an entity type that is not
\* configured, an operation that is not available, or an operation that
\* was not found
ReportsConfiguration(res) ==
  \/ Includes(res.details, "not configured")
  \/ Includes(<<res.error>>, "not available")
  \/ Includes(<<res.error>>, "not found")

\* nothing was thrown and no store function was called
NoStoreCall(out, in) == ~out.threw /\ out.invoked = <<>> /\ out.store = in.store

\* C18: a dispatch for an entity type without a config, or for an
\* operation whose handle is absent or does not resolve, returns success =
\* false with a not-configured or not-available error, throws nothing and
\* calls no store function
C18_UndispatchableReportsConfiguration ==
  (probe.fn = "handleCrudOperation" /\ NotDispatchable(probe.in))
  => /\ probe.out.res.success = FALSE
     /\ ReportsConfiguration(probe.out.res)
     /\ NoStoreCall(probe.out, probe.in)

\* a create that reaches the validation of its draft record
CreateValidates(in) ==
  /\ in.operation = "CREATE"
  /\ Handled(in)
  /\ HandleOf(in) # NoHandle

\* C19: a create whose draft record lacks a required field, or holds it
\* empty, returns success = false with a message that names such a field,
\* and calls no store function
C19_MissingRequiredFieldRejected ==
  (probe.fn = "handleCrudOperation" /\ CreateValidates(probe.in) /\ MissingRequired(probe.in) # {})
  => /\ probe.out.res.success = FALSE
     /\ \E f \in MissingRequired(probe.in) :
          /\ probe.out.res.error = <<"Required field", f, "is missing">>
          /\ probe.out.res.details = <<probe.out.res.error>>
     /\ NoStoreCall(probe.out, probe.in)

\* a create of a user with an email and an empty name
C19_Witness ==
  /\ probe.fn = "handleCrudOperation"
  /\ CreateValidates(probe.in)
  /\ probe.in.entityType = "users"
  /\ MissingRequired(probe.in) = {"name"}
  /\ "name" \in DOMAIN DraftOf(probe.in)
  /\ probe.out.res.error = <<"Required field", "name", "is missing">>
  /\ probe.out.invoked = <<>>

\* the fields of the data on its way to the store whose supplied value
\* fails the validator of the field
InvalidFields(in) ==
  {f \in ConfigOf(in).validated :
     /\ f \in DOMAIN ArgsOf(in)
     /\ ArgsOf(in)[f] # Undef
     /\ ~validateEmail(ArgsOf(in)[f])}

\* a create or update that has a handle and whose draft record lacks no
\* required field
SendsFieldData(in) ==
  /\ in.operation \in {"CREATE", "UPDATE"}
  /\ Handled(in)
  /\ HandleOf(in) # NoHandle
  /\ in.operation = "CREATE" => MissingRequired(in) = {}

\* the error names the field
NamesField(error, f) == error # Undef /\ Includes(<<error>>, f)

\* C20: a create or update with a supplied value that fails the validator
\* of its field returns success = false with an error that names the field,
\* and calls no store function
C20_InvalidValueRejected ==
  (probe.fn = "handleCrudOperation" /\ SendsFieldData(probe.in) /\ InvalidFields(probe.in) # {})
  => /\ probe.out.res.success = FALSE
     /\ \E f \in InvalidFields(probe.in) : NamesField(probe.out.res.error, f)
     /\ NoStoreCall(probe.out, probe.in)

\* a read, update or delete that has a handle and no hint, or only an
\* empty one, for the identifier field of the entity
LacksIdentifier(in) ==
  /\ in.operation \in {"READ", "UPDATE", "DELETE"}
  /\ Handled(in)
  /\ HandleOf(in) # NoHandle
  /\ \A i \in 1..Len(in.entities) :
        in.entities[i].type = ConfigOf(in).identifierField => in.entities[i].value = Undef

\* C21: a read, update or delete dispatched without a hint for the
\* identifier field returns success = false with a missing-identifier
\* error and calls no store function
C21_MissingIdentifierRejected ==
  (probe.fn = "handleCrudOperation" /\ LacksIdentifier(probe.in))
  => /\ probe.out.res.success = FALSE
     /\ probe.out.res.error = <<"Missing", ConfigOf(probe.in).identifierField>>
     /\ probe.out.res.details = << <<ConfigOf(probe.in).identifierField, "is required">> >>
     /\ NoStoreCall(probe.out, probe.in)

\* a delete of a user with a name hint only, on a store that holds users
C21_Witness ==
  /\ probe.fn = "handleCrudOperation"
  /\ LacksIdentifier(probe.in)
  /\ probe.in.operation = "DELETE"
  /\ probe.in.entityType = "users"
  /\ probe.in.entities # <<>>
  /\ probe.in.store # <<>>
  /\ probe.out.res.error = <<"Missing", "email">>

\* the hints of a create that name a field the users table keeps
StoredHints(in) ==
  {i \in 1..Len(in.entities) : in.entities[i].type \in {"name", "email"}}

\* the create added a record to the users table
Created(in, out) ==
  /\ in.operation = "CREATE"
  /\ in.entityType = "users"
  /\ out.res.success
  /\ Len(out.store) = Len(in.store) + 1

\* C22: the record a create adds to the store holds, for every hint that
\* names a declared field, exactly the value of the hint; the field
\* extraction of the LLM never replaces it
C22_HintsReachStore ==
  (probe.fn = "handleCrudOperation" /\ Created(probe.in, probe.out))
  => \A i \in StoredHints(probe.in) :
       probe.out.store[Len(probe.out.store)][probe.in.entities[i].type] = probe.in.entities[i].value

\* the reply of getUser for a verified user with this name and email
FoundUser(name, email) ==
  << <<"USER", "Found user:", " ">> \o name \o <<" ", "(">> \o email \o <<")">>
     \o <<" - Email verified">> >>

\* C30: after a successful create of a user on a store that did not hold
\* the email, a read keyed on that email succeeds and returns the name and
\* email given to the create
C30_CreateReadRoundTrip ==
  (probe.fn = "createThenRead" /\ probe.out.create.res.success
     /\ FindUser(probe.in.store, probe.in.email) = 0)
  => /\ probe.out.read.res.success
     /\ probe.out.read.res.details = FoundUser(probe.in.name, probe.in.email)

\* the intents the routing table hands to the Direct Responder
DirectIntents == {"GREETING", "SIMPLE_QUESTION", "SAFETY_VIOLATION", "UNKNOWN"}

\* processTask has returned
TaskDone == task.pc = "done"

\* the request reached this handler and no other
OnlyHandler(h) == task.handlers = <<h>>

\* C23: processTask routes through a fixed table: the four direct intents
\* reach only the Direct Responder, CRUD_OPERATION reaches the dispatcher,
\* which is called exactly once, COMPLEX_WORKFLOW reaches only the plan
\* executor; no request reaches two of them
C23_RoutingTableSingleDispatch ==
  TaskDone
  => /\ task.classification.intent \in DirectIntents
          => OnlyHandler("handleWithIntelligence") /\ task.dispatcher = 0 /\ task.executor = 0
     /\ task.classification.intent = "CRUD_OPERATION"
          => OnlyHandler("handleCrudOperation") /\ task.dispatcher = 1 /\ task.executor = 0
     /\ task.classification.intent = "COMPLEX_WORKFLOW"
          => OnlyHandler("handleComplexWorkflow") /\ task.dispatcher = 0 /\ task.executor = 1

\* C23, amended: as above, but the dispatcher is called once when the
\* entity type of the classification is registered and not at all when it
\* is not, the request then being rejected by the coordinator itself
C23_RoutingTableAtMostOneDispatch ==
  TaskDone
  => /\ task.classification.intent \in DirectIntents
          => OnlyHandler("handleWithIntelligence") /\ task.dispatcher = 0 /\ task.executor = 0
     /\ task.classification.intent = "CRUD_OPERATION"
          => /\ OnlyHandler("handleCrudOperation")
             /\ task.executor = 0
             /\ IF EntityTypeOf(task.classification) \in getAvailableEntityTypes
                THEN task.dispatcher = 1 /\ task.result.strategy = "SIMPLE_CRUD"
                ELSE task.dispatcher = 0 /\ task.result = UnsupportedEntityType
                     /\ store = store0
     /\ task.classification.intent = "COMPLEX_WORKFLOW"
          => OnlyHandler("handleComplexWorkflow") /\ task.dispatcher = 0 /\ task.executor = 1

\* scenario A: a create classified as a CRUD operation, dispatched once,
\* that succeeded
C23_Witness ==
  /\ TaskDone
  /\ task.classification.intent = "CRUD_OPERATION"
  /\ task.classification.operation = "CREATE"
  /\ task.dispatcher = 1
  /\ task.result.success
  /\ Len(store) = Len(store0) + 1

LlmCalls == [i \in 1..Len(task.llm) |-> task.llm[i].call]

\* the outcome of the primary completion
PrimaryOutcome == task.llm[1].outcome

\* the Direct Responder has answered the request
Responded == TaskDone /\ OnlyHandler("handleWithIntelligence")

\* C25: a request classified SAFETY_VIOLATION is never executed: it
\* reaches neither the dispatcher nor the plan executor, no store function
\* is called for it, and the response carries a message
C25_SafetyViolationNotExecuted ==
  (task.classification.intent = "SAFETY_VIOLATION" /\ task.pc # "classify")
  => /\ task.dispatcher = 0
     /\ task.executor = 0
     /\ calls = <<>>
     /\ store = store0
     /\ pc = "idle"
     /\ TaskDone => OnlyHandler("handleWithIntelligence") /\ task.result.result # Undef

\* C26: generateResponse returns a message and throws nothing whatever
\* the completions do; the plain-text completion is requested only after
\* the primary one failed or could not be parsed, the template is returned
\* only after the plain-text one failed too, and a primary completion that
\* succeeded is the only one requested
C26_ResponderFallbackChain ==
  Responded
  => /\ ~task.threw
     /\ task.result.result # Undef
     /\ LlmCalls \in {<<"primary">>, <<"primary", "adaptive">>}
     /\ Len(task.llm) = 2 => PrimaryOutcome \in {"error", "unparseable", "null"}
     /\ task.result.result = Template
          => Len(task.llm) = 2 /\ task.llm[2].outcome = "error"
     /\ PrimaryOutcome = "message"
          => Len(task.llm) = 1 /\ task.result.result = <<"message">>

\* C27: processTask throws nothing and returns a result with success,
\* result, strategy and reasoning whatever the classifier, the completions
\* and the store do; a classifier failure is handled as intent UNKNOWN by
\* the Direct Responder
C27_ProcessTaskAlwaysReturns ==
  /\ ~task.threw
  /\ TaskDone
       => /\ task.result.success \in BOOLEAN
          /\ task.result.result # Undef
          /\ task.result.strategy \in {"DIRECT", "SIMPLE_CRUD", "MULTI_AGENT", "REJECTED"}
          /\ task.result.reasoning # <<>>
  /\ (task.pc # "classify" /\ ~task.classified)
       => /\ task.classification.intent = "UNKNOWN"
          /\ TaskDone => OnlyHandler("handleWithIntelligence")

\* the process call of request r has returned
Returned(r) == service.running[r].pc = "done"

\* C28: when two requests are processed at the same time by the one
\* ComplexExecutor of the service, the reasoning list and the step
\* results returned for a request hold only entries that request
\* produced, under every interleaving of their awaits.
C28_NoSharedStateAcrossRequests ==
  \A r \in Requests :
    Returned(r)
    => /\ \A i \in 1..Len(service.running[r].returned.reasoning) :
            service.running[r].returned.reasoning[i].request = r
       /\ \A i \in 1..Len(service.running[r].returned.results) :
            service.running[r].returned.results[i].request = r


\* the dispatcher calls of step i are calls of that step; those of a
\* fan-out step are one per referenced item, in the order of the items,
\* and the ids of the step are the ids of the calls in that order
StepCallsInOrder(i) ==
  /\ \A k \in 1..Len(calls[i]) :
       /\ calls[i][k].operation = toUpperCase(plan[i].operation)
       /\ calls[i][k].entityType = plan[i].entityType
  /\ FanOutRan(i)
       => /\ Len(calls[i]) = Len(ReferencedItems(i))
          /\ \A k \in 1..Len(calls[i]) :
               calls[i][k].identifier = ItemIdentifier(plan[i], ReferencedItems(i)[k])
          /\ results[i].ids = FlatIds(calls[i], 1)

\* C29: within one request the dispatcher calls occur in plan order: when
\* the calls of a step start, the results of all earlier steps are
\* recorded and their calls are complete; the step's result is recorded
\* with its calls; the calls of a fan-out step follow the order of the
\* referenced items and the aggregated ids keep that order.
C29_DispatcherCallsInPlanOrder ==
  [][calls' # calls
       => /\ Len(results) = Len(calls)
          /\ Len(calls') = Len(calls) + 1
          /\ SubSeq(calls', 1, Len(calls)) = calls
          /\ SubSeq(results', 1, Len(results)) = results
          /\ Len(results') = Len(calls')
          /\ results'[Len(results')].stepId = plan[Len(calls')].id
          /\ StepCallsInOrder(Len(calls))']_vars

\* a second step fanned a list out over two users: two calls on
\* different users, the ids of both in the result
C29_Witness ==
  \E i \in 2..Len(results) :
    /\ FanOutRan(i)
    /\ Len(calls[i]) = 2
    /\ calls[i][1].identifier # calls[i][2].identifier
    /\ Len(results[i].ids) > 2


\* the count of a list dispatch, as executeSingleOperation takes it from
\* the CrudResult
ListedCount(entityType, r) ==
  ScrapedCount("LIST", r.res,
               ScrapedItems(StepOf("list", entityType, <<>>, Undef), "LIST", r.res))

\* C31: two list dispatches on one entity type with no mutation in
\* between give equal counts, and a list or read dispatch leaves the
\* store as it was.
C31_ListIdempotentReadOnly ==
  /\ probe.fn = "listTwice"
       => /\ ListedCount(probe.in.entityType, probe.out.first)
               = ListedCount(probe.in.entityType, probe.out.second)
          /\ probe.out.first.store = probe.in.store
          /\ probe.out.second.store = probe.in.store
  /\ (probe.fn = "handleCrudOperation" /\ probe.in.operation \in {"LIST", "READ"})
       => probe.out.store = probe.in.store

\* two users listed twice: both lists succeed and count two
C31_Witness ==
  /\ probe.fn = "listTwice"
  /\ probe.in.entityType = "users"
  /\ Len(probe.in.store) = 2
  /\ probe.out.first.res.success /\ probe.out.second.res.success
  /\ ListedCount("users", probe.out.first) = 2
  /\ ListedCount("users", probe.out.second) = 2


\* the number of pieces of text that are tok
RECURSIVE Occurrences(_, _, _)
Occurrences(text, tok, i) ==
  IF i > Len(text) THEN 0
  ELSE (IF text[i] = tok THEN 1 ELSE 0) + Occurrences(text, tok, i + 1)

\* the completion, less its code fences, is JSON: the JSON null, or one
\* object (one opening brace, one closing brace behind it, a member or
\* nothing between them) with nothing but plain text around it
ParseableCompletion(text) ==
  \/ SelectSeq(text, NotFence) = <<"null">>
  \/ /\ Occurrences(text, "{", 1) = 1
     /\ Occurrences(text, "}", 1) = 1
     /\ Occurrences(text, "null", 1) = 0
     /\ FirstIndex(text, "}", 1) - FirstIndex(text, "{", 1) \in {1, 2}

\* the completion has a steps member that is an array
HasStepsArray(text) == Occurrences(text, "STEPS", 1) = 1

\* a step of the array lacks id, operation or entityType
StepMissingField(steps) ==
  \E i \in 1..Len(steps) :
    steps[i].id = "" \/ steps[i].operation = "" \/ steps[i].entityType = ""

SortKey(item) == ItemField(item, probe.in.by)

\* the place of the k-th item given in the sequence returned
PlaceOf(k) == CHOOSE j \in 1..Len(probe.out) : probe.out[j] = probe.in.items[k]

\* C33: sortItems puts every item whose sort field is null or undefined
\* behind all items that have a value, for asc and for desc, and keeps
\* the order of the items given among items of equal value.
C33_NullsLastStable ==
  probe.fn = "sortItems"
  => /\ Len(probe.out) = Len(probe.in.items)
     /\ \A k \in 1..Len(probe.in.items) : \E j \in 1..Len(probe.out) :
          probe.out[j] = probe.in.items[k]
     /\ \A i, j \in 1..Len(probe.out) :
          (i < j /\ SortKey(probe.out[i]) = Undef) => SortKey(probe.out[j]) = Undef
     /\ \A k, l \in 1..Len(probe.in.items) :
          (k < l /\ SortKey(probe.in.items[k]) = SortKey(probe.in.items[l]))
          => PlaceOf(k) < PlaceOf(l)

\* desc over a null name and the same name twice: the two named items
\* come first, in the order given
C33_Witness ==
  /\ probe.fn = "sortItems"
  /\ probe.in.order = "desc" /\ probe.in.by = "name"
  /\ Len(probe.in.items) = 3
  /\ probe.in.items[1].name = Undef
  /\ probe.in.items[2].name = Roster[1].name
  /\ probe.in.items[3].name = Roster[1].name
  /\ probe.out = <<probe.in.items[2], probe.in.items[3], probe.in.items[1]>>


\* C34: a read, update or delete step that has an identifier addresses
\* the record of that identifier, also when its data holds another value
\* for the identifier field: the step succeeds exactly when a record has
\* the identifier, and every record of another identifier is left as it
\* was.
C34_KeyedByIdentifier ==
  probe.fn = "keyedOperation"
  => /\ probe.out.result.success <=> FindUser(probe.in.store, probe.in.identifier) # 0
     /\ \A i \in 1..Len(probe.in.store) :
          probe.in.store[i].email # probe.in.identifier
          => \E j \in 1..Len(probe.out.store) : probe.out.store[j] = probe.in.store[i]


\* C35: a create step that resolves with success has count 1 and the
\* store has inserted exactly one record, also when a record with the
\* same identifier was there already.
C35_SuccessfulCreateInsertsOne ==
  (probe.fn = "createStep" /\ probe.out.result.success)
  => /\ probe.out.result.count = 1
     /\ Len(probe.out.store) = Len(probe.in.store) + 1
     /\ SubSeq(probe.out.store, 1, Len(probe.in.store)) = probe.in.store


\* the step before step i that the condition of step i refers to, 0 when
\* there is none
ConditionStep(i) ==
  IF \E j \in 1..(i - 1) : plan[j].id = plan[i].condition.fromStep
  THEN CHOOSE j \in 1..(i - 1) :
         /\ plan[j].id = plan[i].condition.fromStep
         /\ \A j2 \in (j + 1)..(i - 1) : plan[j2].id # plan[j].id
  ELSE 0

\* step i is conditioned, on the count, on a recorded step that failed
\* or was skipped
RefersToFailedOrSkipped(i) ==
  /\ plan[i].condition.type \in ConditionTypes
  /\ plan[i].condition.field \in {"", "count"}
  /\ ConditionStep(i) # 0
  /\ \/ ~results[ConditionStep(i)].success
     \/ results[ConditionStep(i)].meta.skipped

\* C36: a condition that refers to a step that resolved with success
\* false, or that was skipped, is evaluated against a count of 0: exists
\* is false; not_exists, count_eq 0 and count_lt / count_lte of a
\* positive value are true and the conditioned step is dispatched.
C36_FailedOrSkippedCountsZero ==
  \A i \in 1..Len(results) :
    RefersToFailedOrSkipped(i)
    => /\ results[i].meta.skipped
            <=> ~Reference(plan[i].condition.type, 0, plan[i].condition.value)
       /\ ~results[i].meta.skipped => calls[i] # <<>>


\* the count recorded for step j when it failed or was skipped: the sum
\* of the counts of its calls when it repeats or fans out, 0 otherwise
CountOfFailedOrSkipped(j) ==
  IF plan[j].fromStep # "" \/ plan[j].repeat > 1 THEN SumCounts(calls[j], 1) ELSE 0

\* C36, amended: a condition that refers to a step that was skipped, or
\* that failed, is evaluated against the count recorded for that step,
\* which is 0 unless the step repeats or fans out, and then the sum of
\* the counts of its calls; a step whose condition holds of that count is
\* dispatched.
C36_FailedOrSkippedCountsRecorded ==
  \A i \in 1..Len(results) :
    RefersToFailedOrSkipped(i)
    => /\ results[i].meta.skipped
            <=> ~Reference(plan[i].condition.type, CountOfFailedOrSkipped(ConditionStep(i)),
                           plan[i].condition.value)
       /\ ~results[i].meta.skipped => calls[i] # <<>>

\* a step whose operation made executePlan catch an exception, and the
\* create conditioned on it with count_lt 1, which was dispatched
C36_Witness ==
  /\ Len(results) = 2
  /\ plan[1].operation = NonString
  /\ ~results[1].success
  /\ plan[2].condition.type = "count_lt"
  /\ plan[2].condition.fromStep = "s1"
  /\ ~results[2].meta.skipped
  /\ calls[2] # <<>>


\* C37: a step runs in exactly one mode, decided in the order condition
\* gate, fromStep, repeat, single: a gated step dispatches nothing; a
\* step with fromStep dispatches once per referenced item whatever its
\* repeat; a step without fromStep and with repeat above 1 dispatches
\* repeat times; a step without fromStep and with repeat 0 or 1
\* dispatches exactly once.
C37_OneModePerStep ==
  \A i \in 1..Len(results) :
    plan[i].operation # NonString
    => Len(calls[i]) =
         IF Gated(i) THEN 0
         ELSE IF plan[i].fromStep # "" THEN Len(ReferencedItems(i))
         ELSE IF plan[i].repeat > 1 THEN plan[i].repeat
         ELSE 1

\* a step with fromStep and repeat 2 over the one item of the list before
\* it: one call
C37_Witness ==
  /\ Len(results) = 2
  /\ plan[2].fromStep = "s1" /\ plan[2].repeat = 2
  /\ ~Gated(2)
  /\ Len(ReferencedItems(2)) = 1
  /\ Len(calls[2]) = 1


\* the operation of the classification is missing or is none of the five
Unrecognised(operation) ==
  toUpperCase(operation) \notin {"CREATE", "READ", "UPDATE", "DELETE", "LIST"}

\* C38: a crud-operation classification whose operation is missing or is
\* none of CREATE, READ, UPDATE, DELETE, LIST is dispatched as LIST when
\* its entity type is supported, and the store is left as it was.
C38_UnrecognisedOperationLists ==
  (probe.fn = "coordinatorCrud" /\ Unrecognised(probe.in.operation))
  => /\ probe.out.crud.store = probe.in.store
     /\ probe.out.dispatched
          => /\ probe.out.crud.res.operation = "LIST"
             /\ probe.out.crud.invoked = <<entityConfigs["users"].operations.list>>
             /\ probe.out.result.strategy = "SIMPLE_CRUD"

\* the operation PURGE with the email of a user of the table: the users
\* are listed and both are still there
C38_Witness ==
  /\ probe.fn = "coordinatorCrud"
  /\ probe.in.operation = "PURGE"
  /\ probe.in.entities = <<Entity("email", Roster[1].email)>>
  /\ Len(probe.in.store) = MaxStore
  /\ probe.out.dispatched
  /\ probe.out.result.success
  /\ probe.out.crud.res.operation = "LIST"
  /\ probe.out.crud.store = probe.in.store


\* C39: clear removes the conversation history of its own session only:
\* the row of every other session is in the table afterwards, with the
\* messages it had.
C39_ClearOwnSessionOnly ==
  probe.fn = "clear"
  => \A id \in DOMAIN probe.in.table :
       id # probe.in.sessionId
       => /\ id \in DOMAIN probe.out
          /\ probe.out[id] = probe.in.table[id]

============================================================================
